---- MODULE Spec2Model ----
(***************************************************************************)
(* Model of the tensor representation and dispatch core of                *)
(* phiml/math/_tensors.py: NativeTensor, TensorStack, Layout, the double  *)
(* dispatch of binary operations, caching, and the tree                   *)
(* disassemble/assemble protocol, and the equality-mode stack.            *)
(*                                                                         *)
(* Shapes and backend arrays are collaborators of _tensors.py (_shape.py  *)
(* and the backend package); they are modelled from their documented      *)
(* interface.                                                              *)
(***************************************************************************)
EXTENDS Integers, Sequences, FiniteSets, TLC

VARIABLES cur, prev, other, op, trace, steps,
          tree, skel, produced, leaves, rest, out, tpc,
          EQUALITY_REDUCE, pushed_by, regions, nested, last_exit, compared,
          BROADCAST_FORMATTER, last

vars == <<cur, prev, other, op, trace, steps, tree, skel, produced, leaves, rest, out, tpc,
          EQUALITY_REDUCE, pushed_by, regions, nested, last_exit, compared, BROADCAST_FORMATTER, last>>

tensorVars == <<cur, prev, other, op, trace, steps>>
treeVars == <<tree, skel, produced, leaves, rest, out, tpc>>
\* the module-level list _EQUALITY_REDUCE; for every frame the region that pushed it; the open
\* regions of every thread, innermost last; whether every exit so far was that of the innermost
\* open region; the exit or the comparison that has just taken place
eqVars == <<EQUALITY_REDUCE, pushed_by, regions, nested, last_exit, compared>>
\* the module-level BroadcastFormatter and the last call of the formatter protocol with its outcome
fmtVars == <<BROADCAST_FORMATTER, last>>

(***************************************************************************)
(* Generic helpers                                                         *)
(***************************************************************************)
Range(s) == {s[i] : i \in 1..Len(s)}

RECURSIVE Concat(_)
Concat(ss) == IF ss = <<>> THEN <<>> ELSE Head(ss) \o Concat(Tail(ss))

RemoveAt(s, k) == [i \in 1..(Len(s) - 1) |-> IF i < k THEN s[i] ELSE s[i + 1]]

InsertAt(s, k, e) == [i \in 1..(Len(s) + 1) |-> IF i < k THEN s[i] ELSE IF i = k THEN e ELSE s[i - 1]]

\* first position of e in s (0 when absent)
PosOf(s, e) == IF \E i \in 1..Len(s) : s[i] = e THEN CHOOSE i \in 1..Len(s) : s[i] = e /\ \A j \in 1..(i - 1) : s[j] # e ELSE 0

\* s without repeated elements, keeping first occurrences
RECURSIVE Dedupe(_)
Dedupe(s) == IF s = <<>> THEN <<>> ELSE LET d == Dedupe(SubSeq(s, 1, Len(s) - 1)) IN IF s[Len(s)] \in Range(d) THEN d ELSE Append(d, s[Len(s)])

\* a local variable: the value is computed once and named in the rest of the body
With(value, Body(_)) == Body(value)

Err(msg) == [kind |-> "Error", error |-> msg]

NotImplemented == [kind |-> "NotImplemented"]

IsErr(v) == v.kind = "Error"

(***************************************************************************)
(* Shape collaborator (_shape.py).  A Shape is a sequence of dimensions;  *)
(* size is <<n>> for a uniform dimension and the sequence of per-slice    *)
(* sizes for a non-uniform one, which varies along dimension `along`.     *)
(***************************************************************************)
BATCH_DIM == "batch"
SPATIAL_DIM == "spatial"
CHANNEL_DIM == "channel"

Dim(name, type, n) == [name |-> name, type |-> type, size |-> <<n>>, along |-> "", item_names |-> <<>>]

EMPTY_SHAPE == <<>>

names(s) == [i \in 1..Len(s) |-> s[i].name]

sizes(s) == [i \in 1..Len(s) |-> s[i].size[1]]

contains(s, n) == \E i \in 1..Len(s) : s[i].name = n

index(s, n) == CHOOSE i \in 1..Len(s) : s[i].name = n

get_dim(s, n) == s[index(s, n)]

get_size(s, n) == get_dim(s, n).size[1]

is_uniform(s) == \A i \in 1..Len(s) : Len(s[i].size) = 1

is_non_uniform(s) == ~is_uniform(s)

\* `a in b` for shapes: every dimension name of a is a name of b
shape_in(a, b) == \A i \in 1..Len(a) : contains(b, a[i].name)

without(s, ns) == SelectSeq(s, LAMBDA d : d.name \notin ns)

only(s, ns) == SelectSeq(s, LAMBDA d : d.name \in ns)

\* only(order, reorder=True): the dimensions of s listed in order, in that order
only_reorder(s, order) == LET o == Dedupe(SelectSeq(order, LAMBDA n : contains(s, n))) IN [i \in 1..Len(o) |-> get_dim(s, o[i])]

with_sizes(s, ns) == [i \in 1..Len(s) |-> [s[i] EXCEPT !.size = <<ns[i]>>, !.along = ""]]

volume(s) == LET RECURSIVE V(_)
                 V(k) == IF k = 0 THEN 1 ELSE s[k].size[1] * V(k - 1)
             IN V(Len(s))

\* batch dimensions hoisted first, the order otherwise as given
hoist_batch(s) == SelectSeq(s, LAMBDA d : d.type = BATCH_DIM) \o SelectSeq(s, LAMBDA d : d.type # BATCH_DIM)

\* merge_shapes: union of the dimensions; same-named dimensions must agree on type and size
merge_compatible(ss) == LET all == Concat(ss) IN \A i, j \in 1..Len(all) : all[i].name = all[j].name => (all[i].type = all[j].type /\ all[i].size = all[j].size)

merge_order(ss) == LET all == Concat(ss)
                       ns == Dedupe(names(all))
                   IN hoist_batch([i \in 1..Len(ns) |-> get_dim(all, ns[i])])

merge_shapes(ss) == IF merge_compatible(ss) THEN [ok |-> TRUE, shape |-> merge_order(ss)] ELSE [ok |-> FALSE, shape |-> <<>>]

\* Shape.__and__
merge2(a, b) == merge_shapes(<<a, b>>)

\* is_compatible
is_compatible(a, b) == merge_compatible(<<a, b>>)

\* shape_stack(stack_dim, *shapes): the stack dimension with the number of shapes as size, plus the
\* dimensions of the shapes; a dimension whose sizes differ becomes non-uniform along the stack
\* dimension, and one whose item names differ loses them.  A stack_dim of more than one dimension
\* is kept as it is.
stack_sizes(shapes, n) == LET having == SelectSeq(shapes, LAMBDA s : contains(s, n))
                              szs == [i \in 1..Len(having) |-> get_dim(having[i], n).size]
                          IN IF \A i \in 1..Len(szs) : szs[i] = szs[1] THEN szs[1] ELSE Concat(szs)

shape_stack(stack_dim, shapes) ==
    LET sd == [stack_dim[1] EXCEPT !.size = <<Len(shapes)>>, !.along = ""]
        all == Concat(shapes)
        ns == SelectSeq(Dedupe(names(all)), LAMBDA n : ~contains(Tail(stack_dim), n))
        inner == [i \in 1..Len(ns) |->
                    LET d == get_dim(all, ns[i])
                        sz == stack_sizes(shapes, ns[i])
                        same_items == \A j \in 1..Len(all) : all[j].name = d.name => all[j].item_names = d.item_names
                    IN [d EXCEPT !.size = sz, !.along = IF Len(sz) = 1 THEN "" ELSE IF d.along # "" /\ sz = d.size THEN d.along ELSE sd.name,
                                 !.item_names = IF same_items THEN d.item_names ELSE <<>>]]
    IN IF Len(stack_dim) = 1 THEN hoist_batch(<<sd>> \o inner) ELSE stack_dim \o SelectSeq(inner, LAMBDA d : d.name # stack_dim[1].name)

(***************************************************************************)
(* Selections: a selection maps dimension names to an integer index       *)
(* [int |-> TRUE, i |-> k] or a slice [int |-> FALSE, start, stop].       *)
(* It is a sequence of [name, sel] pairs, like the dict it models.        *)
(***************************************************************************)
IntSel(n, k) == [name |-> n, int |-> TRUE, start |-> k, stop |-> k + 1]

SliceSel(n, a, b) == [name |-> n, int |-> FALSE, start |-> a, stop |-> b]

sel_has(selection, n) == \E i \in 1..Len(selection) : selection[i].name = n

sel_get(selection, n) == selection[CHOOSE i \in 1..Len(selection) : selection[i].name = n]

\* after_gather: an integer index removes the dimension, a slice narrows its size;
\* selections on dimensions that the shape does not have are ignored
gather_dim(d, selection, s) ==
    IF sel_has(selection, d.name)
    THEN LET sl == sel_get(selection, d.name) IN [d EXCEPT !.size = <<sl.stop - sl.start>>, !.along = ""]
    ELSE IF d.along # "" /\ sel_has(selection, d.along) /\ sel_get(selection, d.along).int
         THEN LET k == sel_get(selection, d.along).start IN [d EXCEPT !.size = <<d.size[k + 1]>>, !.along = ""]
         ELSE d

after_gather(s, selection) ==
    LET kept == SelectSeq(s, LAMBDA d : ~(sel_has(selection, d.name) /\ sel_get(selection, d.name).int))
    IN [i \in 1..Len(kept) |-> gather_dim(kept[i], selection, s)]

(***************************************************************************)
(* Backend collaborator: native arrays.  An array has a tuple of axis     *)
(* sizes (shp) and one value per index tuple (0-based indices).           *)
(***************************************************************************)
\* the row-major position of an index tuple, and the index tuple of a position
RECURSIVE flat_pos(_, _)
flat_pos(shp, ix) == IF shp = <<>> THEN 0 ELSE flat_pos(SubSeq(shp, 1, Len(shp) - 1), SubSeq(ix, 1, Len(ix) - 1)) * shp[Len(shp)] + ix[Len(ix)]

RECURSIVE unflat(_, _)
unflat(shp, p) == IF shp = <<>> THEN <<>> ELSE Append(unflat(SubSeq(shp, 1, Len(shp) - 1), p \div shp[Len(shp)]), p % shp[Len(shp)])

RECURSIVE count(_)
count(shp) == IF shp = <<>> THEN 1 ELSE Head(shp) * count(Tail(shp))

\* the data of an array is its row-major list of values
Array(shp, f(_)) == [kind |-> "Array", shp |-> shp, data |-> [p \in 1..count(shp) |-> f(unflat(shp, p - 1))]]

At(a, ix) == a.data[flat_pos(a.shp, ix) + 1]

from_list(shp, vals) == Array(shp, LAMBDA ix : vals[flat_pos(shp, ix) + 1])

staticshape(a) == a.shp

\* backend.transpose(a, perm): axis k of the result is axis perm[k] of a (perm is 1-based here)
transpose(a, perm) ==
    LET inv(ix) == [k \in 1..Len(a.shp) |-> ix[PosOf(perm, k)]]
    IN Array([k \in 1..Len(perm) |-> a.shp[perm[k]]], LAMBDA ix : At(a, inv(ix)))

\* a[slices] with slice(None) for kept axes and None for new singleton axes; keep[k] says whether
\* position k of the result is an axis of a
expand_axes(a, keep) ==
    LET src(k) == Cardinality({j \in 1..k : keep[j]})
        kept == SelectSeq([k \in 1..Len(keep) |-> k], LAMBDA k : keep[k])
    IN Array([k \in 1..Len(keep) |-> IF keep[k] THEN a.shp[src(k)] ELSE 1],
             LAMBDA ix : At(a, [j \in 1..Len(kept) |-> ix[kept[j]]]))

\* backend.tile(a, multiples)
tile(a, multiples) == Array([k \in 1..Len(a.shp) |-> a.shp[k] * multiples[k]], LAMBDA ix : At(a, [k \in 1..Len(ix) |-> ix[k] % a.shp[k]]))

\* backend.stack(arrays, axis): a new axis at position axis (1-based here); the arrays must agree in shape
stack_arrays(arrays, axis) ==
    IF arrays = <<>> THEN Err("ValueError: need at least one array to stack")
    ELSE IF \E i \in 1..Len(arrays) : arrays[i].shp # arrays[1].shp \/ axis > Len(arrays[1].shp) + 1
    THEN Err("ValueError: all input arrays must have the same shape")
    ELSE Array(InsertAt(arrays[1].shp, axis, Len(arrays)), LAMBDA ix : At(arrays[ix[axis] + 1], RemoveAt(ix, axis)))

\* backend.concat(arrays, axis): the arrays must agree in every axis but `axis`
concat_offset(arrays, axis, i) == LET RECURSIVE O(_)
                                      O(k) == IF k = 0 THEN 0 ELSE arrays[k].shp[axis] + O(k - 1)
                                  IN O(i)

concat_arrays(arrays, axis) ==
    IF arrays = <<>> THEN Err("ValueError: need at least one array to concatenate")
    ELSE IF \E i \in 1..Len(arrays) : Len(arrays[i].shp) # Len(arrays[1].shp) \/ axis > Len(arrays[i].shp)
    THEN Err("ValueError: all the input arrays must have same number of dimensions")
    ELSE IF \E i \in 1..Len(arrays) : \E k \in 1..Len(arrays[1].shp) : k # axis /\ arrays[i].shp[k] # arrays[1].shp[k]
    THEN Err("ValueError: all the input array dimensions except for the concatenation axis must match exactly")
    ELSE LET which(p) == CHOOSE i \in 1..Len(arrays) : concat_offset(arrays, axis, i - 1) <= p /\ p < concat_offset(arrays, axis, i)
         IN Array([arrays[1].shp EXCEPT ![axis] = concat_offset(arrays, axis, Len(arrays))],
                  LAMBDA ix : At(arrays[which(ix[axis])], [ix EXCEPT ![axis] = ix[axis] - concat_offset(arrays, axis, which(ix[axis]) - 1)]))

\* backend.unstack(a, axis): the slices of a along axis
unstack_array(a, axis) == [i \in 1..a.shp[axis] |-> Array(RemoveAt(a.shp, axis), LAMBDA ix : At(a, InsertAt(ix, axis, i - 1)))]

\* backend.multi_slice(a, selections): per axis either everything (all), an index (int) or a slice
AllSel == [all |-> TRUE, int |-> FALSE, start |-> 0, stop |-> 0]

multi_slice(a, sels) ==
    LET keptAxes == SelectSeq([k \in 1..Len(sels) |-> k], LAMBDA k : ~sels[k].int)
        src(ix) == [k \in 1..Len(sels) |-> IF sels[k].int THEN sels[k].start
                                            ELSE IF sels[k].all THEN ix[PosOf(keptAxes, k)]
                                            ELSE ix[PosOf(keptAxes, k)] + sels[k].start]
    IN IF \E k \in 1..Len(sels) : ~sels[k].all /\ (sels[k].start < 0 \/ sels[k].stop > a.shp[k] \/ sels[k].start >= sels[k].stop)
       THEN Err("IndexError: index out of bounds")
       ELSE Array([j \in 1..Len(keptAxes) |-> LET k == keptAxes[j] IN IF sels[k].all THEN a.shp[k] ELSE sels[k].stop - sels[k].start],
                  LAMBDA ix : At(a, src(ix)))

\* elementwise kernels with the backend's broadcasting: shapes are aligned at the last axis,
\* an axis of size 1 is repeated, other size differences are an error
Max(a, b) == IF a >= b THEN a ELSE b

pad_shape(shp, n) == [k \in 1..n |-> IF k <= n - Len(shp) THEN 1 ELSE shp[k - (n - Len(shp))]]

bc_index(shp, ix) == LET n == Len(ix) m == Len(shp) IN [k \in 1..m |-> IF shp[k] = 1 THEN 0 ELSE ix[k + (n - m)]]

apply2(f, x, y) == CASE f = "add" -> x + y [] f = "sub" -> x - y [] f = "eq" -> x = y [] f = "ne" -> x # y [] OTHER -> x * y

native_function2(f, a, b) ==
    LET n == Max(Len(a.shp), Len(b.shp))
        sa == pad_shape(a.shp, n)
        sb == pad_shape(b.shp, n)
    IN IF \E k \in 1..n : sa[k] # sb[k] /\ sa[k] # 1 /\ sb[k] # 1
       THEN Err("ValueError: operands could not be broadcast together")
       ELSE Array([k \in 1..n |-> IF sa[k] = 1 THEN sb[k] ELSE sa[k]], LAMBDA ix : apply2(f, At(a, bc_index(a.shp, ix)), At(b, bc_index(b.shp, ix))))

\* unary kernels
apply1(f, x) == CASE f = "neg" -> 0 - x [] OTHER -> x

native_function1(f, a) == Array(a.shp, LAMBDA ix : apply1(f, At(a, ix)))

(***************************************************************************)
(* Tensor values.  Every value is a record with a `kind`:                 *)
(*   NativeTensor, TensorStack, Layout, Sparse (sibling representation),  *)
(*   Number / Object (raw Python operands), Tuple (a tuple of tensors),   *)
(*   Array, Error (a raised exception), NotImplemented, None.             *)
(***************************************************************************)
Tuple(items) == [kind |-> "Tuple", items |-> items]

Number(n) == [kind |-> "Number", value |-> n]

None == [kind |-> "None"]

\* a str and a dict (keys in insertion order)
Str(s) == [kind |-> "Str", s |-> s]

Dict(keys, vals) == [kind |-> "Dict", keys |-> keys, vals |-> vals]

has_key(d, k) == \E i \in 1..Len(d.keys) : d.keys[i] = k

dict_get(d, k) == d.vals[CHOOSE i \in 1..Len(d.keys) : d.keys[i] = k]

IsTensor(v) == v.kind \in {"NativeTensor", "TensorStack", "Layout", "Sparse"}

AnyErr(s) == \E i \in 1..Len(s) : IsErr(s[i])

FirstErr(s) == s[CHOOSE i \in 1..Len(s) : IsErr(s[i]) /\ \A j \in 1..(i - 1) : ~IsErr(s[j])]

\* names used by reshaped_native for requested dimensions that the tensor does not have
NewName(i) == <<"new0", "new1", "new2", "new3", "new4", "new5">>[i + 1]

\* an operator/native-function pair as passed to _op2: the kernel f, applied with swapped
\* arguments when rev (the r-versions: lambda x, y: y + x)
Fn(f, rev) == [f |-> f, rev |-> rev]

Reversed(fn) == [fn EXCEPT !.rev = ~fn.rev]

native_function(fn, a, b) == IF fn.rev THEN native_function2(fn.f, b, a) ELSE native_function2(fn.f, a, b)

\* NativeTensor.__init__ (DEBUG_CHECKS off); an exception raised while computing the array propagates
NativeTensor(native_tensor, native_shape, expanded_shape) ==
    IF IsErr(native_tensor) THEN native_tensor
    ELSE [kind |-> "NativeTensor", native |-> native_tensor, native_shape |-> native_shape, shape |-> expanded_shape]

\* _transposed_native that rejects names that the tensor does not have
NativeTensor_transposed_native_known_names(t, order, force_expand) ==
    IF \E n \in Range(names(t.native_shape)) : n \notin Range(order)
    THEN Err("AssertionError: dims were not specified in the dim order")
    ELSE IF \E n \in Range(order) : ~contains(t.shape, n) /\ ~contains(t.native_shape, n)
    THEN Err("ValueError: dimension is not part of the tensor")
    ELSE IF order = names(t.native_shape) THEN t.native
    ELSE LET reordered == only_reorder(t.native_shape, order)
             perm == [k \in 1..Len(reordered) |-> index(t.native_shape, reordered[k].name)]
             transposed == IF perm # [k \in 1..Len(perm) |-> k] THEN transpose(t.native, perm) ELSE t.native
             expanded == expand_axes(transposed, [k \in 1..Len(order) |-> contains(t.native_shape, order[k])])
             multiples == [k \in 1..Len(order) |-> IF contains(t.shape, order[k]) /\ ~contains(t.native_shape, order[k]) THEN get_size(t.shape, order[k]) ELSE 1]
         IN IF Len(order) = Len(perm) THEN transposed
            ELSE IF force_expand THEN tile(expanded, multiples) ELSE expanded

\* _transposed_native that leaves every new axis at size one
NativeTensor_transposed_native_singletons(t, order, force_expand) ==
    IF \E n \in Range(names(t.native_shape)) : n \notin Range(order)
    THEN Err("AssertionError: dims were not specified in the dim order")
    ELSE IF order = names(t.native_shape) THEN t.native
    ELSE LET reordered == only_reorder(t.native_shape, order)
             perm == [k \in 1..Len(reordered) |-> index(t.native_shape, reordered[k].name)]
             transposed == IF perm # [k \in 1..Len(perm) |-> k] THEN transpose(t.native, perm) ELSE t.native
             expanded == expand_axes(transposed, [k \in 1..Len(order) |-> contains(t.native_shape, order[k])])
             multiples == [k \in 1..Len(order) |-> IF contains(t.shape, order[k]) /\ ~contains(t.native_shape, order[k]) THEN get_size(t.shape, order[k]) ELSE 1]
         IN IF Len(order) = Len(perm) THEN transposed
            ELSE expanded

\* NativeTensor._transposed_native
NativeTensor_transposed_native(t, order, force_expand) ==
    IF \E n \in Range(names(t.native_shape)) : n \notin Range(order)
    THEN Err("AssertionError: dims were not specified in the dim order")
    ELSE IF order = names(t.native_shape) THEN t.native
    ELSE LET reordered == only_reorder(t.native_shape, order)
             perm == [k \in 1..Len(reordered) |-> index(t.native_shape, reordered[k].name)]
             transposed == IF perm # [k \in 1..Len(perm) |-> k] THEN transpose(t.native, perm) ELSE t.native
             expanded == expand_axes(transposed, [k \in 1..Len(order) |-> contains(t.native_shape, order[k])])
             multiples == [k \in 1..Len(order) |-> IF contains(t.shape, order[k]) /\ ~contains(t.native_shape, order[k]) THEN get_size(t.shape, order[k]) ELSE 1]
         IN IF Len(order) = Len(perm) THEN transposed
            ELSE IF force_expand THEN tile(expanded, multiples) ELSE expanded

\* TensorStack.__init__
varying_shapes(components) == ~merge_shapes([i \in 1..Len(components) |-> components[i].shape]).ok

\* a constructor that does not reject a stack dimension that a component already has
TensorStack_unchecked(components, stack_dim) ==
    IF AnyErr(components) THEN FirstErr(components)
    ELSE IF Len(stack_dim) # 1 THEN Err("AssertionError: stack_dim must be a single-dimension Shape")
    ELSE IF \E i \in 1..Len(components) : ~IsTensor(components[i]) THEN Err("AssertionError: not a Tensor")
    ELSE [kind |-> "TensorStack",
          tensors |-> components,
          stack_dim |-> with_sizes(stack_dim, <<Len(components)>>),
          varying |-> varying_shapes(components),
          shape |-> shape_stack(stack_dim, [i \in 1..Len(components) |-> components[i].shape])]

TensorStack(components, stack_dim) ==
    IF AnyErr(components) THEN FirstErr(components)
    ELSE IF Len(stack_dim) # 1 THEN Err("AssertionError: stack_dim must be a single-dimension Shape")
    ELSE IF \E i \in 1..Len(components) : ~IsTensor(components[i]) THEN Err("AssertionError: not a Tensor")
    ELSE IF \E i \in 1..Len(components) : contains(components[i].shape, stack_dim[1].name)
    THEN Err("AssertionError: Cannot stack because the dimension already exists")
    ELSE [kind |-> "TensorStack",
          tensors |-> components,
          stack_dim |-> with_sizes(stack_dim, <<Len(components)>>),
          varying |-> varying_shapes(components),
          shape |-> shape_stack(stack_dim, [i \in 1..Len(components) |-> components[i].shape])]

\* TensorStack.requires_broadcast (no tracers, sizes always defined, a stack is not sparse)
requires_broadcast(t) == IF t.varying THEN TRUE ELSE is_non_uniform(t.tensors[1].shape)

\* requires_broadcast raises for a stack without components: self._tensors[0]
no_first_component(t) == t.kind = "TensorStack" /\ ~t.varying /\ t.tensors = <<>>

IndexError == Err("IndexError: tuple index out of range")

\* a Python list held by a Layout
List(items) == [kind |-> "List", items |-> items]

\* shape(obj, allow_unshaped=True)
value_shape(v) == IF IsTensor(v) THEN v.shape ELSE EMPTY_SHAPE

\* Layout._recursive_get_shapes: the shapes of the leaves below the levels that s covers
RECURSIVE Layout_recursive_get_shapes(_, _)
Layout_recursive_get_shapes(obj, s) ==
    IF s = <<>> THEN <<value_shape(obj)>>
    ELSE IF obj.kind \in {"List", "Tuple"}
    THEN Concat([i \in 1..Len(obj.items) |-> Layout_recursive_get_shapes(obj.items[i], after_gather(s, <<IntSel(s[1].name, i - 1)>>))])
    ELSE IF obj.kind = "Dict"
    THEN Concat([i \in 1..Len(obj.vals) |-> Layout_recursive_get_shapes(obj.vals[i], after_gather(s, <<IntSel(s[1].name, i - 1)>>))])
    ELSE [i \in 1..volume(s) |-> value_shape(obj)]

\* Layout.__init__
Layout(obj, stack_dim) ==
    IF IsErr(obj) THEN obj
    ELSE IF obj.kind = "List" /\ AnyErr(obj.items) THEN FirstErr(obj.items)
    ELSE [kind |-> "Layout", obj |-> obj, stack_dim |-> stack_dim,
          shape |-> IF stack_dim = <<>> THEN value_shape(obj) ELSE shape_stack(stack_dim, Layout_recursive_get_shapes(obj, stack_dim))]

\* Shape.well_defined: no size is undefined
well_defined(s) == \A i \in 1..Len(s) : s[i].size # <<0 - 1>>

\* isinstance(native, (tuple, list, dict)) and the elements that iterating it gives
IsContainer(v) == v.kind \in {"List", "Tuple", "Dict"}

Children(v) == IF v.kind = "Dict" THEN v.vals ELSE v.items

\* a shape returned, as opposed to an exception raised
Determined(s) == [kind |-> "Shape", dims |-> s]

\* recursive_determine_shape of layout(): the sizes, and for a dict the item names, are read from
\* the tree.  The keys of a dict are Python values, Str(..) for a str.
RECURSIVE recursive_determine_shape(_, _)
recursive_determine_shape(native, shape) ==
    IF shape = <<>> THEN Determined(shape)
    ELSE IF native.kind = "Dict" /\ \E k \in 1..Len(native.keys) : native.keys[k].kind # "Str"
    THEN Err("AssertionError: All dict keys in PyTrees must be str")
    ELSE LET keyed == IF native.kind = "Dict"
                      THEN <<[shape[1] EXCEPT !.size = <<Len(native.keys)>>, !.item_names = [k \in 1..Len(native.keys) |-> native.keys[k].s]]>> \o Tail(shape)
                      ELSE shape
             inner_shapes == [i \in 1..Len(Children(native)) |-> recursive_determine_shape(Children(native)[i], Tail(keyed))]
         IN IF Len(keyed) = 1
            THEN (IF IsContainer(native) THEN Determined(with_sizes(keyed, <<Len(Children(native))>>)) ELSE Err("TypeError: object has no len()"))
            ELSE IF ~IsContainer(native) THEN Err("ValueError")
            ELSE IF AnyErr(inner_shapes) THEN FirstErr(inner_shapes)
            ELSE Determined(shape_stack(<<keyed[1]>>, [i \in 1..Len(inner_shapes) |-> inner_shapes[i].dims]))

\* layout(objects, *shape)
layout(objects, shape) ==
    IF objects.kind = "Layout" THEN (IF objects.shape # shape THEN Err("AssertionError") ELSE objects)
    ELSE IF well_defined(shape) THEN Layout(objects, shape)
    ELSE With(recursive_determine_shape(objects, shape), LAMBDA determined :
             IF IsErr(determined) THEN determined ELSE Layout(objects, determined.dims))

\* A method is looked up on the object when it is called: every call of one of the methods
\* below goes through call(name, args), which selects the implementation of the receiver.
RECURSIVE call(_, _)
transposed_native(t, order, force_expand) == call("_transposed_native", <<t, order, force_expand>>)

contiguous(t) == call("_contiguous", <<t>>)

getitem(t, selection) == call("_getitem", <<t, selection>>)

unstack(t, dim) == call("_unstack", <<t, dim>>)

op1(t, f) == call("_op1", <<t, f>>)

op2(t, y, fn) == call("_op2", <<t, y, fn>>)

operator(fn, x, y) == call("operator", <<fn, x, y>>)

with_shape_replaced(t, new_shape) == call("_with_shape_replaced", <<t, new_shape>>)

\* t._cached(dims), for a NativeTensor
cached_dims(t, dims) == call("_cached", <<t, dims>>)

\* the functions of the module that call these methods are reached in the same way
tensor(data, shape) == call("tensor", <<data, shape>>)

cached(t) == call("cached", <<t>>)

expand_tensor(value, dims) == call("expand_tensor", <<value, dims>>)

\* self.__eq__(other) and self.__ne__(other); same is `self is other`
eq(self, y, same) == call("__eq__", <<self, y, same>>)

ne(self, y, same) == call("__ne__", <<self, y, same>>)


\* reshaped_native(value, groups) for groups that are single dimension names: a name that the
\* tensor does not have becomes a new singleton axis
reshaped_native(value, groups, force_expand) ==
    transposed_native(value, [i \in 1..Len(groups) |-> IF contains(value.shape, groups[i]) THEN groups[i] ELSE NewName(i - 1)], force_expand)

\* Tensor.native(order) with order a tuple or list of names
native_tuple(t, order) == reshaped_native(t, order, TRUE)

\* Tensor.native(order, force_expand) with order a Shape or str
native_shape_order(t, order, force_expand) == transposed_native(t, names(order), force_expand)

\* Tensor.native() without order
native_default(t) == IF Len(t.shape) > 1 THEN Err("AssertionError: the dimension order must be specified") ELSE transposed_native(t, names(t.shape), TRUE)

\* the order argument of Tensor.native: a tuple or list of names, a comma-separated str or None
ListOrder(ns) == [kind |-> "list", names |-> ns]

StrOrder(ns) == [kind |-> "str", names |-> ns]

NoOrder == [kind |-> "None", names |-> <<>>]

\* Tensor.native(order, force_expand)
Tensor_native(t, order, force_expand) ==
    CASE order.kind = "list" -> reshaped_native(t, order.names, force_expand)
      [] order.kind = "None" ->
             IF Len(t.shape) > 1 THEN Err("AssertionError: the dimension order must be specified")
             ELSE transposed_native(t, names(t.shape), force_expand)
      [] OTHER -> transposed_native(t, order.names, force_expand)

\* TensorStack._transposed_native
TensorStack_transposed_native(t, order, force_expand) ==
    LET sname == t.stack_dim[1].name
        inner_order == SelectSeq(order, LAMBDA n : n # sname)
        natives == [i \in 1..Len(t.tensors) |-> native_tuple(t.tensors[i], inner_order)]
        materialized == contiguous(t)
    IN IF names(without(t.shape, {sname})) = inner_order
       THEN IF AnyErr(natives) THEN FirstErr(natives)
            ELSE IF sname \notin Range(order) THEN Err("AssertionError: stack dimension missing from order")
            ELSE stack_arrays(natives, PosOf(order, sname))
       ELSE IF is_non_uniform(t.shape) THEN Err("AssertionError: Cannot convert non-uniform tensor to native tensor")
       ELSE IF materialized.kind = "None" THEN Err("AttributeError: NoneType has no attribute _transposed_native")
       ELSE IF IsErr(materialized) THEN materialized
       ELSE transposed_native(materialized, order, force_expand)

(***************************************************************************)
(* NativeTensor                                                            *)
(***************************************************************************)
\* the optional `dims` argument of _cached: NoDims is None
NoDims == [none |-> TRUE, shape |-> <<>>]

SomeDims(s) == [none |-> FALSE, shape |-> s]

\* _cached that expands one virtual dimension per call
NativeTensor_cached_one_dim(t, dims) ==
    LET missing == without(t.shape, Range(names(t.native_shape)))
        m == merge2(<<missing[1]>>, t.native_shape)
        tmp_tensor == NativeTensor(t.native, t.native_shape, m.shape)
    IN IF t.native_shape = t.shape THEN t
       ELSE IF Len(t.native_shape) + 1 = Len(t.shape) THEN NativeTensor(native_shape_order(t, t.shape, TRUE), t.shape, t.shape)
       ELSE NativeTensor(native_shape_order(tmp_tensor, m.shape, TRUE), m.shape, t.shape)

\* NativeTensor._cached
NativeTensor_cached(t, dims) ==
    LET m == merge2(dims.shape, t.native_shape)
        tmp_tensor == NativeTensor(t.native, t.native_shape, m.shape)
    IN IF t.native_shape = t.shape THEN t
       ELSE IF dims.none THEN NativeTensor(native_shape_order(t, t.shape, TRUE), t.shape, t.shape)
       ELSE IF ~m.ok THEN Err("IncompatibleShapes")
       ELSE IF shape_in(t.shape, m.shape) THEN NativeTensor(native_shape_order(t, t.shape, TRUE), t.shape, t.shape)
       ELSE NativeTensor(native_shape_order(tmp_tensor, m.shape, TRUE), m.shape, t.shape)

\* NativeTensor._with_shape_replaced
NativeTensor_with_shape_replaced(t, new_shape) ==
    LET renamed == [i \in 1..Len(t.shape) |-> [t.shape[i] EXCEPT !.name = new_shape[i].name, !.type = new_shape[i].type]]
    IN IF Len(new_shape) # Len(t.shape) THEN Err("IncompatibleShapes")
       ELSE IF ~shape_in(t.native_shape, t.shape) THEN Err("ValueError: dimension not in shape")
       ELSE NativeTensor(t.native, [k \in 1..Len(t.native_shape) |-> renamed[index(t.shape, t.native_shape[k].name)]], renamed)

\* _getitem that forgets to narrow native_shape
NativeTensor_getitem_stale_native_shape(t, selection) ==
    LET selections == [k \in 1..Len(t.native_shape) |->
                          IF sel_has(selection, t.native_shape[k].name)
                          THEN LET s == sel_get(selection, t.native_shape[k].name) IN [all |-> FALSE, int |-> s.int, start |-> s.start, stop |-> s.stop]
                          ELSE AllSel]
        gathered == IF selections # <<>> THEN multi_slice(t.native, selections) ELSE t.native
    IN IF selection = <<>> THEN t
       ELSE NativeTensor(gathered, t.native_shape, after_gather(t.shape, selection))

\* _getitem that accepts nothing but an integer index on every dimension that is not stored
NativeTensor_getitem_int_only_on_virtual(t, selection) ==
    LET selections == [k \in 1..Len(t.native_shape) |->
                          IF sel_has(selection, t.native_shape[k].name)
                          THEN LET s == sel_get(selection, t.native_shape[k].name) IN [all |-> FALSE, int |-> s.int, start |-> s.start, stop |-> s.stop]
                          ELSE AllSel]
        gathered == IF selections # <<>> THEN multi_slice(t.native, selections) ELSE t.native
    IN IF selection = <<>> THEN t
       ELSE IF \E i \in 1..Len(selection) : ~contains(t.native_shape, selection[i].name) /\ ~selection[i].int
       THEN Err("AssertionError: Attempting slice missing dimension")
       ELSE NativeTensor(gathered, after_gather(t.native_shape, selection), after_gather(t.shape, selection))

\* NativeTensor._getitem
NativeTensor_getitem(t, selection) ==
    LET selections == [k \in 1..Len(t.native_shape) |->
                          IF sel_has(selection, t.native_shape[k].name)
                          THEN LET s == sel_get(selection, t.native_shape[k].name) IN [all |-> FALSE, int |-> s.int, start |-> s.start, stop |-> s.stop]
                          ELSE AllSel]
        gathered == IF selections # <<>> THEN multi_slice(t.native, selections) ELSE t.native
    IN IF selection = <<>> THEN t
       ELSE IF \E i \in 1..Len(selection) : ~contains(t.native_shape, selection[i].name) /\ ~contains(t.shape, selection[i].name) /\ ~selection[i].int
       THEN Err("AssertionError: Attempting slice missing dimension")
       ELSE NativeTensor(gathered, after_gather(t.native_shape, selection), after_gather(t.shape, selection))

\* _unstack that returns a virtual dimension as a single entry
NativeTensor_unstack_virtual_once(t, dim) ==
    LET new_shape == without(t.shape, {dim})
        new_native_shape == without(t.native_shape, {dim})
        tensors == unstack_array(t.native, index(t.native_shape, dim))
    IN IF contains(t.native_shape, dim)
       THEN Tuple([i \in 1..Len(tensors) |-> NativeTensor(tensors[i], new_native_shape, new_shape)])
       ELSE IF ~contains(t.shape, dim) THEN Err("AssertionError: Cannot unstack tensor along non-existant dimension")
       ELSE Tuple(<<NativeTensor(t.native, new_native_shape, new_shape)>>)

\* NativeTensor._unstack
NativeTensor_unstack(t, dim) ==
    LET new_shape == without(t.shape, {dim})
        new_native_shape == without(t.native_shape, {dim})
        tensors == unstack_array(t.native, index(t.native_shape, dim))
    IN IF contains(t.native_shape, dim)
       THEN Tuple([i \in 1..Len(tensors) |-> NativeTensor(tensors[i], new_native_shape, new_shape)])
       ELSE IF ~contains(t.shape, dim) THEN Err("AssertionError: Cannot unstack tensor along non-existant dimension")
       ELSE Tuple([i \in 1..get_size(t.shape, dim) |-> NativeTensor(t.native, new_native_shape, new_shape)])

\* NativeTensor._op1; the native function "none" returns None
NativeTensor_op1(t, f) == IF f = "none" THEN t ELSE NativeTensor(native_function1(f, t.native), t.native_shape, t.shape)

\* Tensor._tensor / compatible_tensor for the operands of the model: a Tensor is returned as it is,
\* a number becomes a dimensionless NativeTensor, for any other object no backend is found
tensor_of(x) == IF x.kind = "Number" THEN NativeTensor(from_list(<<>>, <<x.value>>), EMPTY_SHAPE, EMPTY_SHAPE) ELSE x

\* the natives of both operands in the order of the broadcast shape, virtual dimensions not expanded
op2_natives(pair, broadcast_shape) ==
    [i \in 1..2 |-> IF Len(pair[i].shape) > 0 THEN native_shape_order(pair[i], broadcast_shape, FALSE) ELSE native_default(pair[i])]

\* _op2 that converts every other tensor to a NativeTensor instead of declining
NativeTensor_op2_converting(t, y, fn, switch_args) ==
    LET o == tensor_of(y)
        other_tensor == IF o.kind = "NativeTensor" THEN o ELSE NativeTensor(transposed_native(o, names(o.shape), TRUE), o.shape, o.shape)
        broadcast_shape == merge2(t.native_shape, other_tensor.native_shape)
        pair == <<t, other_tensor>>
        natives == [i \in 1..2 |-> IF Len(pair[i].shape) > 0 THEN native_shape_order(pair[i], broadcast_shape.shape, FALSE) ELSE native_default(pair[i])]
        ordered == IF switch_args THEN <<natives[2], natives[1]>> ELSE natives
        result_tensor == native_function(fn, ordered[1], ordered[2])
        expanded == merge2(t.shape, other_tensor.shape)
    IN IF y.kind = "Object" THEN NotImplemented
       ELSE IF IsErr(other_tensor) THEN other_tensor
       ELSE IF ~broadcast_shape.ok THEN Err("IncompatibleShapes")
       ELSE IF AnyErr(natives) THEN FirstErr(natives)
       ELSE IF IsErr(result_tensor) THEN result_tensor
       ELSE IF ~expanded.ok THEN Err("IncompatibleShapes")
       ELSE NativeTensor(result_tensor, broadcast_shape.shape, expanded.shape)

\* _op2 that broadcasts over the expanded shapes: every virtual dimension is stored in the result
NativeTensor_op2_expanding(t, y, fn, switch_args) ==
    LET other_tensor == tensor_of(y)
        was_converted == ~IsTensor(y)
        broadcast_shape == merge2(t.shape, other_tensor.shape)
        pair == <<t, other_tensor>>
        natives == [i \in 1..2 |-> IF Len(pair[i].shape) > 0 THEN native_shape_order(pair[i], broadcast_shape.shape, TRUE) ELSE native_default(pair[i])]
        ordered == IF switch_args THEN <<natives[2], natives[1]>> ELSE natives
        result_tensor == native_function(fn, ordered[1], ordered[2])
    IN IF y.kind = "Object" THEN NotImplemented
       ELSE IF other_tensor.kind # "NativeTensor" /\ ~was_converted THEN NotImplemented
       ELSE IF ~broadcast_shape.ok THEN Err("IncompatibleShapes")
       ELSE IF AnyErr(natives) THEN FirstErr(natives)
       ELSE IF IsErr(result_tensor) THEN result_tensor
       ELSE NativeTensor(result_tensor, broadcast_shape.shape, broadcast_shape.shape)

\* NativeTensor._op2
NativeTensor_op2(t, y, fn, switch_args) ==
    With(tensor_of(y), LAMBDA other_tensor :
        IF y.kind = "Object" THEN NotImplemented
        ELSE IF other_tensor.kind # "NativeTensor" /\ IsTensor(y) THEN NotImplemented
        ELSE With(merge2(t.native_shape, other_tensor.native_shape), LAMBDA broadcast_shape :
        IF ~broadcast_shape.ok THEN Err("IncompatibleShapes")
        ELSE With(op2_natives(<<t, other_tensor>>, broadcast_shape.shape), LAMBDA natives :
        IF AnyErr(natives) THEN FirstErr(natives)
        ELSE With(IF switch_args THEN native_function(fn, natives[2], natives[1]) ELSE native_function(fn, natives[1], natives[2]), LAMBDA result_tensor :
        IF IsErr(result_tensor) THEN result_tensor
        ELSE With(merge2(t.shape, other_tensor.shape), LAMBDA expanded :
        IF ~expanded.ok THEN Err("IncompatibleShapes")
        ELSE NativeTensor(result_tensor, broadcast_shape.shape, expanded.shape))))))

(***************************************************************************)
(* Sibling representation (sparse tensors, _sparse.py): only its answer   *)
(* to _op2 matters here, handled or not handled.                          *)
(***************************************************************************)
Sparse(shape, handles) == [kind |-> "Sparse", shape |-> shape, handles |-> handles]

Sparse_op2(t, y, fn) ==
    LET m == merge2(t.shape, tensor_of(y).shape)
    IN IF ~t.handles \/ ~(IsTensor(y) \/ y.kind = "Number") THEN NotImplemented
       ELSE IF ~m.ok THEN Err("IncompatibleShapes")
       ELSE Sparse(m.shape, t.handles)

(***************************************************************************)
(* TensorStack                                                             *)
(***************************************************************************)
\* zip(a, b): as long as the shorter one
ZipLen(a, b) == IF Len(a) <= Len(b) THEN Len(a) ELSE Len(b)

MinLen(ts) == CHOOSE n \in {Len(ts[i].items) : i \in 1..Len(ts)} : \A i \in 1..Len(ts) : n <= Len(ts[i].items)

\* Tensor.__getitem__ with a dict: selections on dimensions that the tensor does not have are dropped
Tensor_getitem(t, item) ==
    LET selections == SelectSeq(item, LAMBDA s : contains(t.shape, s.name))
    IN IF selections # <<>> THEN getitem(t, selections) ELSE t

\* TensorStack._contiguous
TensorStack_contiguous(t) ==
    LET natives == [i \in 1..Len(t.tensors) |-> native_tuple(t.tensors[i], names(t.shape))]
    IN IF no_first_component(t) THEN IndexError
       ELSE IF requires_broadcast(t) THEN None
       ELSE IF \A i \in 1..Len(t.tensors) : is_uniform(t.tensors[i].shape)
       THEN IF AnyErr(natives) THEN FirstErr(natives)
            ELSE NativeTensor(concat_arrays(natives, index(t.shape, t.stack_dim[1].name)), t.shape, t.shape)
       ELSE Err("AssertionError: Shape.name is only defined for shapes of rank 1")

\* self._contiguous()._method(...): None has no methods
OnContiguous(t, M(_)) ==
    LET c == contiguous(t)
    IN IF c.kind = "None" THEN Err("AttributeError: NoneType") ELSE IF IsErr(c) THEN c ELSE M(c)

\* TensorStack._with_shape_replaced
TensorStack_with_shape_replaced(t, new_shape) ==
    LET new_stack_dim == <<new_shape[index(t.shape, t.stack_dim[1].name)]>>
        new_inner(c) == [k \in 1..Len(c.shape) |-> new_shape[index(t.shape, c.shape[k].name)]]
    IN IF Len(new_shape) < Len(t.shape) THEN Err("IndexError: shape index out of range")
       ELSE TensorStack([i \in 1..Len(t.tensors) |-> with_shape_replaced(t.tensors[i], new_inner(t.tensors[i]))], new_stack_dim)

\* TensorStack._getitem
TensorStack_getitem(t, selection) ==
    LET sname == t.stack_dim[1].name
        inner_dict == SelectSeq(selection, LAMBDA s : s.name # sname)
        tensors == IF Len(inner_dict) > 0 THEN [i \in 1..Len(t.tensors) |-> Tensor_getitem(t.tensors[i], inner_dict)] ELSE t.tensors
        sel == sel_get(selection, sname)
    IN IF (~sel_has(selection, sname) \/ Len(selection) # 1) /\ no_first_component(t) THEN IndexError
       ELSE IF (~sel_has(selection, sname) \/ Len(selection) # 1) /\ ~requires_broadcast(t)
       THEN OnContiguous(t, LAMBDA c : getitem(c, selection))
       ELSE IF AnyErr(tensors) THEN FirstErr(tensors)
       ELSE IF ~sel_has(selection, sname) THEN TensorStack(tensors, t.stack_dim)
       ELSE IF ~sel.int THEN TensorStack(SubSeq(tensors, sel.start + 1, sel.stop), after_gather(t.stack_dim, <<sel>>))
       ELSE IF sel.start >= Len(tensors) THEN Err("IndexError: tuple index out of range")
       ELSE tensors[sel.start + 1]

\* TensorStack._unstack
TensorStack_unstack(t, dim) ==
    LET unstacked == [i \in 1..Len(t.tensors) |-> unstack(t.tensors[i], dim)]
    IN IF dim = t.stack_dim[1].name THEN Tuple(t.tensors)
       ELSE IF no_first_component(t) THEN IndexError
       ELSE IF ~requires_broadcast(t) THEN OnContiguous(t, LAMBDA c : unstack(c, dim))
       ELSE IF AnyErr(unstacked) THEN FirstErr(unstacked)
       ELSE LET items == [k \in 1..MinLen(unstacked) |-> TensorStack([i \in 1..Len(unstacked) |-> unstacked[i].items[k]], t.stack_dim)]
            IN IF AnyErr(items) THEN FirstErr(items) ELSE Tuple(items)

\* TensorStack._op1
TensorStack_op1(t, f) ==
    IF no_first_component(t) THEN IndexError
    ELSE IF requires_broadcast(t) THEN TensorStack([i \in 1..Len(t.tensors) |-> op1(t.tensors[i], f)], t.stack_dim)
    ELSE OnContiguous(t, LAMBDA c : op1(c, f))

\* broadcastable_native_tensors for two dense tensors
broadcastable_native_tensors(a, b) ==
    With(merge_shapes(<<a.shape, b.shape>>), LAMBDA broadcast_shape :
        IF ~broadcast_shape.ok THEN Err("IncompatibleShapes")
        ELSE With([i \in 1..2 |-> IF Len(<<a, b>>[i].shape) > 0 THEN native_tuple(<<a, b>>[i], names(broadcast_shape.shape)) ELSE native_default(<<a, b>>[i])], LAMBDA natives :
        IF AnyErr(natives) THEN FirstErr(natives)
        ELSE [kind |-> "Broadcast", shape |-> broadcast_shape.shape, natives |-> natives]))

\* TensorStack._op2
TensorStack_op2(t, y, fn) ==
    With(tensor_of(y), LAMBDA o :
        IF y.kind = "Object" THEN Err("NoBackendFound")
        ELSE IF no_first_component(t) THEN IndexError
        ELSE IF requires_broadcast(t)
        THEN IF contains(o.shape, t.stack_dim[1].name)
             THEN With(unstack(o, t.stack_dim[1].name), LAMBDA other_slices :
                  IF IsErr(other_slices) THEN other_slices
                  ELSE TensorStack([i \in 1..ZipLen(t.tensors, other_slices.items) |-> operator(fn, t.tensors[i], other_slices.items[i])], t.stack_dim))
             ELSE TensorStack([i \in 1..Len(t.tensors) |-> operator(fn, t.tensors[i], o)], t.stack_dim)
        ELSE IF no_first_component(o) THEN IndexError
        ELSE IF o.kind = "NativeTensor" \/ (o.kind = "TensorStack" /\ ~requires_broadcast(o))
        THEN With(broadcastable_native_tensors(t, o), LAMBDA bc :
             IF IsErr(bc) THEN bc ELSE NativeTensor(native_function(fn, bc.natives[1], bc.natives[2]), bc.shape, bc.shape))
        ELSE IF o.kind = "TensorStack" /\ requires_broadcast(o)
        THEN IF contains(t.shape, o.stack_dim[1].name)
             THEN With(unstack(t, o.stack_dim[1].name), LAMBDA self_slices :
                  IF IsErr(self_slices) THEN self_slices
                  ELSE TensorStack([i \in 1..ZipLen(self_slices.items, o.tensors) |-> operator(fn, self_slices.items[i], o.tensors[i])], t.stack_dim))
             ELSE TensorStack([i \in 1..Len(o.tensors) |-> operator(fn, t, o.tensors[i])], t.stack_dim)
        ELSE NotImplemented)

(***************************************************************************)
(* Layout                                                                  *)
(***************************************************************************)
\* Layout.wrap
Layout_wrap(native, stack_dim) ==
    IF IsErr(native) \/ IsTensor(native) THEN native
    ELSE IF native.kind = "Number" THEN tensor_of(native)
    ELSE Layout(native, stack_dim)

\* a container of the same type with other elements; the first exception raised for an element
\* is the outcome
Rebuilt(container, elements) ==
    IF AnyErr(elements) THEN FirstErr(elements)
    ELSE IF container.kind = "Dict" THEN [container EXCEPT !.vals = elements]
    ELSE [container EXCEPT !.items = elements]

\* slice_(value, sel_dict) of _magic_ops for the contents of a Layout
RECURSIVE slice_(_, _)
slice_(v, selection) ==
    IF IsTensor(v) THEN Tensor_getitem(v, selection)
    ELSE IF IsContainer(v) THEN Rebuilt(v, [i \in 1..Len(Children(v)) |-> slice_(Children(v)[i], selection)])
    ELSE v

\* native[selection] for an int or a slice
Subscript(native, sel) ==
    IF native.kind \notin {"List", "Tuple"} THEN Err("TypeError: object is not subscriptable")
    ELSE IF sel.int THEN (IF sel.start >= Len(native.items) THEN Err("IndexError: list index out of range") ELSE native.items[sel.start + 1])
    ELSE [native EXCEPT !.items = SubSeq(native.items, sel.start + 1, IF sel.stop <= Len(native.items) THEN sel.stop ELSE Len(native.items))]

\* Layout._getitem_recursive; dims are the names of the stack dimensions not yet treated
RECURSIVE Layout_getitem_recursive(_, _, _)
Layout_getitem_recursive(obj, dims, sel_dict) ==
    IF dims = <<>> THEN obj
    ELSE LET native == IF obj.kind = "Dict" THEN [kind |-> "Tuple", items |-> obj.vals] ELSE obj
             selected == sel_has(sel_dict, dims[1])
             picked == IF selected THEN Subscript(native, sel_get(sel_dict, dims[1])) ELSE native
         IN IF IsErr(picked) THEN picked
            ELSE IF Len(dims) = 1 THEN slice_(picked, sel_dict)
            ELSE IF selected /\ sel_get(sel_dict, dims[1]).int THEN Layout_getitem_recursive(picked, Tail(dims), sel_dict)
            ELSE IF ~IsContainer(picked) THEN Err("TypeError: object is not iterable")
            ELSE Rebuilt(picked, [i \in 1..Len(picked.items) |-> Layout_getitem_recursive(picked.items[i], Tail(dims), sel_dict)])

\* Layout._getitem
Layout_getitem(t, selection) ==
    Layout_wrap(Layout_getitem_recursive(t.obj, names(t.stack_dim), selection), after_gather(t.stack_dim, selection))

\* Layout._unstack
Layout_unstack(t, dimension) ==
    IF t.stack_dim = <<>> THEN Err("IndexError: tuple index out of range")
    ELSE IF dimension # t.stack_dim[1].name THEN Err("NotImplementedError")
    ELSE IF ~IsContainer(t.obj) THEN Err("TypeError: object is not iterable")
    ELSE LET items == [i \in 1..Len(Children(t.obj)) |-> Layout_wrap(Children(t.obj)[i], Tail(t.stack_dim))]
         IN IF AnyErr(items) THEN FirstErr(items) ELSE Tuple(items)

\* Layout._as_list with Layout._as_list_recursive: the objects at depth `dims`, in order
RECURSIVE Layout_as_list_recursive(_, _)
Layout_as_list_recursive(native, dims) ==
    IF dims = 0 THEN <<native>>
    ELSE IF ~IsContainer(native) THEN <<Err("TypeError: object is not iterable")>>
    ELSE Concat([i \in 1..Len(Children(native)) |-> Layout_as_list_recursive(Children(native)[i], dims - 1)])

\* Layout.native(order)
Layout_native(t, order) ==
    IF order # names(t.stack_dim) THEN Err("AssertionError: Layout.native() does not allow for changing the dimension order")
    ELSE t.obj

\* the native function applied to two Python leaves
leaf_function(fn, a, b) ==
    IF a.kind = "Number" /\ b.kind = "Number"
    THEN Number(IF fn.rev THEN apply2(fn.f, b.value, a.value) ELSE apply2(fn.f, a.value, b.value))
    ELSE Err("TypeError: unsupported operand types")

\* Layout._recursive_op2 at a leaf
Layout_leaf_op2(obj, o, fn) ==
    IF o.kind = "Layout" /\ o.shape = <<>> THEN leaf_function(fn, obj, o.obj)
    ELSE IF IsTensor(o) THEN operator(fn, obj, o)
    ELSE leaf_function(fn, obj, o)

\* Layout._recursive_op2
RECURSIVE Layout_recursive_op2(_, _, _, _)
Layout_recursive_op2(obj, shape, y, fn) ==
    IF shape = <<>> THEN Layout_leaf_op2(obj, y, fn)
    ELSE LET dim == shape[1].name
             n == Len(Children(obj))
             sliced == IsTensor(y) /\ contains(y.shape, dim)
             others == [i \in 1..n |-> IF sliced THEN Tensor_getitem(y, <<IntSel(dim, i - 1)>>) ELSE y]
         IN IF ~IsContainer(obj) THEN Err("TypeError: object has no len()")
            ELSE IF sliced /\ (is_non_uniform(<<get_dim(y.shape, dim)>>) \/ get_size(y.shape, dim) # n) THEN Err("AssertionError: Shape mismatch")
            ELSE IF AnyErr(others) THEN FirstErr(others)
            ELSE Rebuilt(obj, [i \in 1..n |-> Layout_recursive_op2(Children(obj)[i], Tail(shape), others[i], fn)])

\* Layout._op2
Layout_op2(t, y, fn) ==
    Layout(Layout_recursive_op2(t.obj, t.stack_dim, y, fn),
           IF y.kind = "Layout" THEN t.stack_dim \o without(y.stack_dim, Range(names(t.stack_dim))) ELSE t.stack_dim)

\* the native function applied to one Python leaf
leaf_function1(f, a) == IF f = "none" THEN None ELSE IF a.kind = "Number" THEN Number(apply1(f, a.value)) ELSE Err("TypeError: bad operand type")

\* Layout._recursive_op1
RECURSIVE Layout_recursive_op1(_, _, _)
Layout_recursive_op1(obj, shape, f) ==
    IF shape = <<>> THEN leaf_function1(f, obj)
    ELSE IF ~IsContainer(obj) THEN Err("ValueError")
    ELSE Rebuilt(obj, [i \in 1..Len(Children(obj)) |-> Layout_recursive_op1(Children(obj)[i], Tail(shape), f)])

\* Layout._op1
Layout_op1(t, f) == Layout(Layout_recursive_op1(t.obj, t.stack_dim, f), t.stack_dim)

\* dtype.kind(obj) for the data type int
dtype_kind(obj) == IF obj.kind = "Number" THEN obj ELSE Err("TypeError: int() argument must be a string or a number")

\* Layout._recursive_cast to the data type int; cast leaves the values of an int tensor as they are
RECURSIVE Layout_recursive_cast(_, _)
Layout_recursive_cast(obj, shape) ==
    IF shape = <<>> THEN (IF IsTensor(obj) THEN obj ELSE dtype_kind(obj))
    ELSE IF IsContainer(obj) THEN Rebuilt(obj, [i \in 1..Len(Children(obj)) |-> Layout_recursive_cast(Children(obj)[i], Tail(shape))])
    ELSE IF IsTensor(obj) THEN (IF obj.shape # shape THEN Err("AssertionError") ELSE obj)
    ELSE Err("ValueError")

\* Layout.__cast__
Layout_cast(t) == Layout(Layout_recursive_cast(t.obj, t.stack_dim), t.stack_dim)

\* [obj] * size for the dimensions of new_stack_dims, the last one innermost
RECURSIVE Repeated(_, _)
Repeated(obj, new_stack_dims) ==
    IF new_stack_dims = <<>> THEN obj
    ELSE Repeated([kind |-> "List", items |-> [i \in 1..new_stack_dims[Len(new_stack_dims)].size[1] |-> obj]], SubSeq(new_stack_dims, 1, Len(new_stack_dims) - 1))

\* Layout.__expand__
Layout_expand(t, dims) ==
    LET new_stack_dims == without(dims, Range(names(t.stack_dim)))
    IN IF new_stack_dims = <<>> THEN t
       ELSE IF is_non_uniform(new_stack_dims) THEN Err("AssertionError: Can only expand layouts by integer-sized dimensions")
       ELSE Layout(Repeated(t.obj, new_stack_dims), new_stack_dims \o t.stack_dim)

\* v.native(self._stack_dim) for a value that is stacked
stacked_native(v, stack_dim) ==
    IF v.kind = "Layout" THEN Layout_native(v, names(stack_dim)) ELSE transposed_native(v, names(stack_dim), TRUE)

\* Layout.__stack__
Layout_stack(t, values, dim) ==
    LET obj == [i \in 1..Len(values) |-> stacked_native(values[i], t.stack_dim)]
    IN IF AnyErr(obj) THEN FirstErr(obj) ELSE Layout([kind |-> "List", items |-> obj], dim \o t.stack_dim)

\* Shape.meshgrid(): the index dicts of a shape, the last dimension varying fastest
meshgrid(s) == [p \in 1..volume(s) |-> [k \in 1..Len(s) |-> IntSel(s[k].name, unflat(sizes(s), p - 1)[k])]]

\* t.native() of the tensor self[i]
item_native(v) ==
    IF IsErr(v) THEN v
    ELSE IF v.kind = "Layout" THEN v.obj
    ELSE IF v.kind = "NativeTensor" /\ v.shape = <<>> THEN Number(v.native.data[1])
    ELSE native_default(v)

\* Layout.__pack_dims__
Layout_pack_dims(t, dims, packed_dim) ==
    IF dims = names(t.stack_dim)
    THEN LET native == Layout_as_list_recursive(t.obj, Len(t.stack_dim))
         IN IF AnyErr(native) THEN FirstErr(native) ELSE Layout([kind |-> "List", items |-> native], with_sizes(packed_dim, <<Len(native)>>))
    ELSE LET grid == meshgrid(only_reorder(t.shape, dims))
             obj == [p \in 1..Len(grid) |-> item_native(Tensor_getitem(t, grid[p]))]
         IN IF AnyErr(obj) THEN FirstErr(obj)
            ELSE Layout([kind |-> "List", items |-> obj], with_sizes(packed_dim, <<volume(only(t.shape, Range(dims)))>>) \o without(t.stack_dim, Range(dims)))

(***************************************************************************)
(* Dispatch on the representation (the methods of Tensor)                 *)
(***************************************************************************)
\* The Python expression `a <f> b` (Tensor.__add__ / __radd__ ...): a's method first; when it
\* returns NotImplemented and b is of another type, b's reflected method; else TypeError
PyBinary(f, a, b) ==
    LET first == op2(a, b, Fn(f, FALSE))
        second == op2(b, a, Fn(f, TRUE))
    IN IF a.kind = "Number" /\ b.kind = "Number" THEN Number(apply2(f, a.value, b.value))
       ELSE IF IsTensor(a) /\ first # NotImplemented THEN first
       ELSE IF IsTensor(b) /\ a.kind # b.kind /\ second # NotImplemented THEN second
       ELSE Err("TypeError: unsupported operand types")

\* the `operator` argument of _op2: lambda x, y: x + y, or lambda x, y: y + x when reversed
apply_operator(fn, x, y) == IF fn.rev THEN PyBinary(fn.f, y, x) ELSE PyBinary(fn.f, x, y)

(***************************************************************************)
(* custom_op2, cached, expand_tensor, tensor                              *)
(***************************************************************************)
\* tensor(data, shape) / wrap(data, shape) for a number, a backend array or a Tensor as data.
\* shape.given = FALSE is the call without a shape; a size of -1 in the shape is an undefined size
NoShape == [given |-> FALSE, shape |-> <<>>]

GivenShape(s) == [given |-> TRUE, shape |-> s]

default_list_dim == <<[name |-> "vector", type |-> CHANNEL_DIM, size |-> <<0 - 1>>, along |-> "", item_names |-> <<>>]>>

tensor_impl(data, shape) ==
    LET szs == staticshape(data)
        zero == \E k \in 1..Len(szs) : szs[k] = 0
        shp == IF ~shape.given THEN with_sizes(IF Len(szs) = 1 THEN default_list_dim ELSE EMPTY_SHAPE, szs)
               ELSE IF ~zero THEN with_sizes(shape.shape, szs) ELSE shape.shape
        present_shape == with_sizes(SubSeq(shp, 1, Len(szs)), szs)
        full == [i \in 1..Len(shp) |-> IF i <= Len(szs) THEN present_shape[i] ELSE IF shp[i].size[1] = 0 - 1 THEN [shp[i] EXCEPT !.size = <<0>>] ELSE shp[i]]
    IN CASE IsTensor(data) -> (IF ~shape.given THEN data ELSE with_shape_replaced(data, shape.shape))
         [] data.kind = "Number" -> (IF shape.given /\ shape.shape # <<>> THEN Err("AssertionError: Trying to create a zero-dimensional Tensor with a shape")
                                     ELSE NativeTensor(from_list(<<>>, <<data.value>>), EMPTY_SHAPE, EMPTY_SHAPE))
         [] data.kind = "Array" ->
                IF ~shape.given /\ Len(szs) > 1 THEN Err("AssertionError: Specify dimension names for tensors with more than 1 dimension")
                ELSE IF shape.given /\ ~zero /\ Len(szs) # Len(shape.shape) THEN Err("IncompatibleShapes")
                ELSE IF shape.given /\ ~zero /\ \E k \in 1..Len(szs) : shape.shape[k].size[1] # 0 - 1 /\ shape.shape[k].size[1] # szs[k]
                THEN Err("AssertionError: Given shape does not match data")
                ELSE IF zero THEN NativeTensor(data, present_shape, full)
                ELSE NativeTensor(data, shp, shp)
         [] OTHER -> Err("ValueError: not supported")

\* custom_op2(x, y, l_operator, l_native_function): the attempts made, in order, and the result
wrap(data) == tensor(data, NoShape)

\* result = x._op2(y, l_operator, l_native_function) on the wrapped operands
custom_op2_first(x, y, fn) == op2(x, y, fn)

\* result = y._op2(x, r_operator, r_native_function) on the wrapped operands
custom_op2_second(x, y, fn) == op2(y, x, Reversed(fn))

\* custom_op2 that asks the right operand first
custom_op2_trace_right_first(x, y, fn) ==
    With(custom_op2_second(x, y, fn), LAMBDA first :
        IF first # NotImplemented THEN <<[on |-> "y", fn |-> Reversed(fn), result |-> first]>>
        ELSE <<[on |-> "y", fn |-> Reversed(fn), result |-> first], [on |-> "x", fn |-> fn, result |-> custom_op2_first(x, y, fn)]>>)

\* the _op2 calls that custom_op2 makes on the wrapped operands x and y, in order, with their results
custom_op2_trace(x, y, fn) ==
    With(custom_op2_first(x, y, fn), LAMBDA first :
        IF first # NotImplemented THEN <<[on |-> "x", fn |-> fn, result |-> first]>>
        ELSE <<[on |-> "x", fn |-> fn, result |-> first], [on |-> "y", fn |-> Reversed(fn), result |-> custom_op2_second(x, y, fn)]>>)

\* the value that custom_op2 returns or the exception that it raises after the given attempts
custom_op2_result(x, y, attempts) ==
    IF attempts[Len(attempts)].result = NotImplemented
    THEN [kind |-> "Error", error |-> "NotImplementedError: Operation not supported", types |-> <<x.kind, y.kind>>]
    ELSE attempts[Len(attempts)].result

\* x, y = wrap(x), wrap(y), followed by the attempts on the wrapped operands
custom_op2_wrapped(x, y, fn) ==
    With(wrap(x), LAMBDA wx : With(wrap(y), LAMBDA wy : [x |-> wx, y |-> wy, attempts |-> custom_op2_trace(wx, wy, fn)]))

custom_op2_calls(x, y, fn) == call("custom_op2", <<x, y, fn>>)

custom_op2(x, y, fn) ==
    With(custom_op2_calls(x, y, fn), LAMBDA r : custom_op2_result(r.x, r.y, r.attempts))

\* cached
cached_impl(t) ==
    LET inners == [i \in 1..Len(t.tensors) |-> cached(t.tensors[i])]
        natives == [i \in 1..Len(inners) |-> native_tuple(inners[i], names(inners[i].shape))]
    IN CASE t.kind = "NativeTensor" -> NativeTensor_cached(t, NoDims)
         [] t.kind = "TensorStack" ->
                IF AnyErr(inners) THEN FirstErr(inners)
                ELSE IF no_first_component(t) THEN IndexError
                ELSE IF requires_broadcast(t) THEN TensorStack(inners, t.stack_dim)
                ELSE IF AnyErr(natives) THEN FirstErr(natives)
                ELSE NativeTensor(stack_arrays(natives, index(t.shape, t.stack_dim[1].name)), t.shape, t.shape)
         [] t.kind = "Sparse" -> t
         [] t.kind = "Layout" -> t
         [] OTHER -> Err("AssertionError: Cannot cache")

\* expand_tensor
expand_tensor_impl(value, dims) ==
    LET alongs == {dims[i].along : i \in 1..Len(dims)} \ {""}
        along == CHOOSE a \in alongs : TRUE
        stack_dim == <<get_dim(dims, along)>>
        unstacked_dims == [i \in 1..stack_dim[1].size[1] |-> after_gather(dims, <<IntSel(along, i - 1)>>)]
        unstacked == unstack(value, along)
        component(inner, inner_shape) == LET m == merge2(inner_shape, inner.native_shape)
                                         IN IF ~m.ok THEN Err("IncompatibleShapes") ELSE NativeTensor(inner.native, inner.native_shape, m.shape)
        uniform == merge2(dims, value.shape)
    IN IF dims = <<>> THEN value
       ELSE IF value.kind = "NativeTensor"
       THEN IF is_uniform(dims)
            THEN IF ~uniform.ok THEN Err("IncompatibleShapes") ELSE NativeTensor(value.native, value.native_shape, uniform.shape)
            ELSE IF Cardinality(alongs) > 1 THEN Err("NotImplementedError: Higher-order non-uniform expand() not yet supported")
            ELSE IF contains(value.shape, along)
            THEN IF IsErr(unstacked) THEN unstacked
                 ELSE TensorStack([i \in 1..ZipLen(unstacked_dims, unstacked.items) |-> component(unstacked.items[i], unstacked_dims[i])], stack_dim)
            ELSE TensorStack([i \in 1..Len(unstacked_dims) |-> component(value, unstacked_dims[i])], stack_dim)
       ELSE IF value.kind = "TensorStack"
               /\ \E k \in 1..Len(dims) : dims[k].along = value.stack_dim[1].name /\ Len(dims[k].size) > 1 /\ Len(dims[k].size) < Len(value.tensors)
       THEN Err("IndexError: index out of bounds")
       ELSE IF value.kind = "TensorStack"
       THEN TensorStack([i \in 1..Len(value.tensors) |-> expand_tensor(value.tensors[i], after_gather(dims, <<IntSel(value.stack_dim[1].name, i - 1)>>))], value.stack_dim)
       ELSE Err("NotImplementedError: expand_tensor")

(***************************************************************************)
(* Equality modes: the comparison operators read the innermost frame of    *)
(* _EQUALITY_REDUCE                                                        *)
(***************************************************************************)
\* _EQUALITY_REDUCE[-1]
top_frame(stack) == stack[Len(stack)]

\* True and False are wrapped like numbers
Bool(b) == [kind |-> "Number", value |-> b]

\* Tensor.__bool__ on the NumPy backend: bool(t), which asserts that t has no dimension
Tensor_bool(t) ==
    IF Len(t.shape) # 0 THEN Err("AssertionError: Cannot convert tensor with non-empty shape to bool")
    ELSE Bool(t.native.data[1])

Abs(x) == IF x >= 0 THEN x ELSE 0 - x

\* math.close(self, other, rel_tolerance, abs_tolerance) for two tensors with the same dimensions:
\* every pair of values differs by at most abs_tolerance + rel_tolerance * |other|; an object is
\* close to itself
close(self, y, same, frame) ==
    IF same THEN TRUE
    ELSE With(native_tuple(self, names(self.shape)), LAMBDA a :
             With(native_tuple(y, names(self.shape)), LAMBDA b :
                 \A p \in 1..Len(a.data) : Abs(a.data[p] - b.data[p]) <= frame.abs_tolerance + frame.rel_tolerance * Abs(b.data[p])))

\* set(self.shape) != set(other.shape)
same_dim_set(a, b) == Range(a) = Range(b)

\* Tensor.__eq__(self, other); same is `self is other`
Tensor_eq(self, y, same) ==
    With(top_frame(EQUALITY_REDUCE), LAMBDA frame :
        IF same THEN expand_tensor(wrap(Bool(TRUE)), self.shape)
        ELSE IF frame.type = "ref" THEN wrap(Bool(same))
        ELSE IF frame.type = "shape_and_value"
        THEN IF ~same_dim_set(self.shape, y.shape) THEN wrap(Bool(FALSE)) ELSE wrap(Bool(close(self, y, same, frame)))
        ELSE IF is_compatible(self.shape, value_shape(y)) THEN op2(self, y, Fn("eq", FALSE))
        ELSE wrap(Bool(FALSE)))

\* Tensor.__ne__(self, other)
Tensor_ne(self, y, same) ==
    With(top_frame(EQUALITY_REDUCE), LAMBDA frame :
        IF frame.type = "ref" THEN wrap(Bool(~same))
        ELSE IF frame.type = "shape_and_value"
        THEN IF ~same_dim_set(self.shape, y.shape) THEN wrap(Bool(TRUE)) ELSE wrap(Bool(~close(self, y, same, frame)))
        ELSE IF is_compatible(self.shape, value_shape(y)) THEN op2(self, y, Fn("ne", FALSE))
        ELSE wrap(Bool(TRUE)))

\* Layout.__eq__(self, other)
Layout_eq(self, y, same) ==
    IF top_frame(EQUALITY_REDUCE).type # "elementwise" THEN Tensor_eq(self, y, same)
    ELSE op2(self, y, Fn("eq", FALSE))

\* Layout.__ne__(self, other)
Layout_ne(self, y, same) ==
    IF top_frame(EQUALITY_REDUCE).type # "elementwise" THEN Tensor_ne(self, y, same)
    ELSE op2(self, y, Fn("ne", FALSE))

(***************************************************************************)
(* Method and function lookup                                              *)
(***************************************************************************)
\* the method or function `name` applied to the arguments a; a[1] is the receiver of a method
call(name, a) ==
    LET t == a[1]
    IN CASE name = "_transposed_native" ->
                CASE t.kind = "NativeTensor" -> NativeTensor_transposed_native(t, a[2], a[3])
                  [] t.kind = "TensorStack" -> TensorStack_transposed_native(t, a[2], a[3])
                  [] OTHER -> Err("NotImplementedError: _transposed_native")
         [] name = "_contiguous" -> TensorStack_contiguous(t)
         [] name = "_getitem" ->
                CASE t.kind = "NativeTensor" -> NativeTensor_getitem(t, a[2])
                  [] t.kind = "TensorStack" -> TensorStack_getitem(t, a[2])
                  [] t.kind = "Layout" -> Layout_getitem(t, a[2])
                  [] OTHER -> Err("NotImplementedError: _getitem")
         [] name = "_unstack" ->
                CASE t.kind = "NativeTensor" -> NativeTensor_unstack(t, a[2])
                  [] t.kind = "TensorStack" -> TensorStack_unstack(t, a[2])
                  [] t.kind = "Layout" -> Layout_unstack(t, a[2])
                  [] OTHER -> Err("NotImplementedError: _unstack")
         [] name = "_op1" ->
                CASE t.kind = "NativeTensor" -> NativeTensor_op1(t, a[2])
                  [] t.kind = "TensorStack" -> TensorStack_op1(t, a[2])
                  [] t.kind = "Layout" -> Layout_op1(t, a[2])
                  [] OTHER -> Err("NotImplementedError: _op1")
         [] name = "_op2" ->
                CASE t.kind = "NativeTensor" -> NativeTensor_op2(t, a[2], a[3], FALSE)
                  [] t.kind = "TensorStack" -> TensorStack_op2(t, a[2], a[3])
                  [] t.kind = "Sparse" -> Sparse_op2(t, a[2], a[3])
                  [] t.kind = "Layout" -> Layout_op2(t, a[2], a[3])
                  [] OTHER -> Err("NotImplementedError: _op2")
         [] name = "_with_shape_replaced" ->
                CASE t.kind = "NativeTensor" -> NativeTensor_with_shape_replaced(t, a[2])
                  [] t.kind = "TensorStack" -> TensorStack_with_shape_replaced(t, a[2])
                  [] OTHER -> Err("NotImplementedError: _with_shape_replaced")
         [] name = "operator" -> apply_operator(a[1], a[2], a[3])
         [] name = "__eq__" -> IF t.kind = "Layout" THEN Layout_eq(t, a[2], a[3]) ELSE Tensor_eq(t, a[2], a[3])
         [] name = "__ne__" -> IF t.kind = "Layout" THEN Layout_ne(t, a[2], a[3]) ELSE Tensor_ne(t, a[2], a[3])
         [] name = "_cached" -> IF t.kind = "NativeTensor" THEN NativeTensor_cached(t, a[2]) ELSE Err("AttributeError: _cached")
         [] name = "custom_op2" -> custom_op2_wrapped(a[1], a[2], a[3])
         [] name = "tensor" -> tensor_impl(a[1], a[2])
         [] name = "cached" -> cached_impl(t)
         [] name = "expand_tensor" -> expand_tensor_impl(t, a[2])

(***************************************************************************)
(* Specs and native arrays of tensors: _natives, _spec_dict,               *)
(* _from_spec_and_natives, disassemble_tensors, assemble_tensors,          *)
(* serialize_spec, unserialize_spec                                        *)
(***************************************************************************)
\* a class object such as NativeTensor, and a Shape, as values of a spec dict
Class(name) == [kind |-> "Class", name |-> name]

ShapeValue(s) == [kind |-> "Shape", dims |-> s]

\* Shape.with_sizes(sizes) for another Shape as sizes
with_sizes_shape(s, other_shape) ==
    [i \in 1..Len(s) |-> IF contains(other_shape, s[i].name) THEN [s[i] EXCEPT !.size = get_dim(other_shape, s[i].name).size, !.along = get_dim(other_shape, s[i].name).along] ELSE s[i]]

\* t._natives()
RECURSIVE natives(_)
natives(t) ==
    IF t.kind = "NativeTensor" THEN <<t.native>>
    ELSE Concat([i \in 1..Len(t.tensors) |-> natives(t.tensors[i])])

\* t._spec_dict()
RECURSIVE spec_dict(_)
spec_dict(t) ==
    IF t.kind = "NativeTensor"
    THEN Dict(<<"type", "native_shape", "shape">>, <<Class("NativeTensor"), ShapeValue(t.native_shape), ShapeValue(t.shape)>>)
    ELSE Dict(<<"type", "stack_dim", "tensors">>, <<Class("TensorStack"), ShapeValue(t.stack_dim), List([i \in 1..Len(t.tensors) |-> spec_dict(t.tensors[i])])>>)

\* the tensor built from a spec and the list of native arrays left after natives.pop(0)
Popped(t, left) == [tensor |-> t, natives |-> left]

\* NativeTensor._from_spec_and_natives
NativeTensor_from_spec_and_natives(spec, natives_list) ==
    IF natives_list = <<>> THEN Popped(Err("IndexError: pop from empty list"), natives_list)
    ELSE IF Len(staticshape(Head(natives_list))) # Len(dict_get(spec, "native_shape").dims)
    THEN Popped(Err("AssertionError: Cannot create shape from sizes"), Tail(natives_list))
    ELSE With(with_sizes(dict_get(spec, "native_shape").dims, staticshape(Head(natives_list))), LAMBDA native_shape :
         Popped(NativeTensor(Head(natives_list), native_shape, with_sizes_shape(dict_get(spec, "shape").dims, native_shape)), Tail(natives_list)))

\* spec['type']._from_spec_and_natives(spec, natives); TensorStack._from_spec_and_natives
\* rebuilds the components from left to right, each taking its arrays from the front of the list
RECURSIVE from_spec_and_natives(_, _)
from_spec_and_natives(spec, natives_list) ==
    LET RECURSIVE components(_, _)
        components(specs, left) ==
            IF specs = <<>> THEN [tensors |-> <<>>, natives |-> left]
            ELSE LET first == from_spec_and_natives(Head(specs), left)
                     more == components(Tail(specs), first.natives)
                 IN IF IsErr(first.tensor) THEN [tensors |-> <<first.tensor>>, natives |-> first.natives]
                    ELSE [tensors |-> <<first.tensor>> \o more.tensors, natives |-> more.natives]
    IN IF ~has_key(spec, "type") THEN Popped(Err("KeyError: 'type'"), natives_list)
       ELSE IF dict_get(spec, "type") = Class("NativeTensor") THEN NativeTensor_from_spec_and_natives(spec, natives_list)
       ELSE IF dict_get(spec, "type") = Class("TensorStack")
       THEN LET built == components(dict_get(spec, "tensors").items, natives_list)
            IN Popped(TensorStack(built.tensors, dict_get(spec, "stack_dim").dims), built.natives)
       ELSE Popped(Err("AttributeError: object has no attribute '_from_spec_and_natives'"), natives_list)

\* disassemble_tensors(tensors, expand)
disassemble_tensors(tensors, expand) ==
    LET prepared == [i \in 1..Len(tensors) |-> IF tensors[i].kind = "TensorStack" \/ expand THEN cached(tensors[i]) ELSE tensors[i]]
    IN IF AnyErr(prepared) THEN FirstErr(prepared)
       ELSE [kind |-> "Disassembled",
             natives |-> Concat([i \in 1..Len(prepared) |-> natives(prepared[i])]),
             shapes |-> [i \in 1..Len(prepared) |-> prepared[i].shape],
             specs |-> [i \in 1..Len(prepared) |-> spec_dict(prepared[i])]]

\* assemble_tensors(natives, specs): every spec takes its arrays from one shared list
RECURSIVE assemble_tensors(_, _)
assemble_tensors(natives_list, specs) ==
    IF specs = <<>> THEN List(<<>>)
    ELSE LET t == from_spec_and_natives(Head(specs), natives_list)
             result == assemble_tensors(t.natives, Tail(specs))
         IN IF IsErr(t.tensor) THEN t.tensor
            ELSE IF IsErr(result) THEN result
            ELSE List(<<t.tensor>> \o result.items)

\* type_names of serialize_spec and its inverse lookup in unserialize_spec
type_names(v) ==
    IF v = Class("NativeTensor") THEN Str("dense")
    ELSE IF v = Class("TensorStack") THEN Str("stack")
    ELSE Err("KeyError")

lookup(v) ==
    IF v = Str("dense") THEN Class("NativeTensor")
    ELSE IF v = Str("stack") THEN Class("TensorStack")
    ELSE Err("KeyError")

\* serialize_spec(spec): only values that are dicts are descended into
RECURSIVE serialize_spec(_)
serialize_spec(spec) ==
    LET result == [i \in 1..Len(spec.keys) |->
                      IF spec.keys[i] = "type" THEN type_names(spec.vals[i])
                      ELSE IF spec.vals[i].kind = "Dict" THEN serialize_spec(spec.vals[i])
                      ELSE IF spec.vals[i].kind = "Class" THEN Err("AssertionError")
                      ELSE spec.vals[i]]
    IN IF AnyErr(result) THEN FirstErr(result) ELSE Dict(spec.keys, result)

\* unserialize_spec(spec)
RECURSIVE unserialize_spec(_)
unserialize_spec(spec) ==
    LET result == [i \in 1..Len(spec.keys) |->
                      IF spec.keys[i] = "type" THEN lookup(spec.vals[i])
                      ELSE IF spec.vals[i].kind = "Dict" THEN unserialize_spec(spec.vals[i])
                      ELSE spec.vals[i]]
    IN IF AnyErr(result) THEN FirstErr(result) ELSE Dict(spec.keys, result)

(***************************************************************************)
(* Tensor.__unpack_dim__                                                   *)
(***************************************************************************)
\* Shape.replace(dim, new) for a dimension of the shape
shape_replace(s, dim, new) == SubSeq(s, 1, index(s, dim) - 1) \o new \o SubSeq(s, index(s, dim) + 1, Len(s))

\* a slice that takes consecutive entries instead of every step-th one
EveryNth_consecutive(tensors, o, step) ==
    LET n == (Len(tensors) - o + step - 1) \div step
    IN [j \in 1..n |-> tensors[((o * n + j - 1) % Len(tensors)) + 1]]

\* tensors[o::step], o counted from 0
EveryNth(tensors, o, step) == [j \in 1..((Len(tensors) - o + step - 1) \div step) |-> tensors[o + 1 + (j - 1) * step]]

\* the loop over unpacked_dims: every dimension regroups the current list into
\* len(tensors) // udim.size stacks along that dimension
RECURSIVE unpack_stacks(_, _)
unpack_stacks(tensors, unpacked_dims) ==
    IF unpacked_dims = <<>> THEN tensors
    ELSE LET groups == Len(tensors) \div Head(unpacked_dims).size[1]
             stacks == [o \in 1..groups |-> TensorStack(EveryNth(tensors, o - 1, groups), <<Head(unpacked_dims)>>)]
         IN IF AnyErr(stacks) THEN <<FirstErr(stacks)>> ELSE unpack_stacks(stacks, Tail(unpacked_dims))

\* t.__unpack_dim__(dim, unpacked_dims) for a dimension of t and unpacked dimensions of defined,
\* uniform sizes
Tensor_unpack_dim(t, dim, unpacked_dims) ==
    IF is_uniform(t.shape)
    THEN With(transposed_native(t, names(t.shape), TRUE), LAMBDA native :
         IF IsErr(native) THEN native
         ELSE IF volume(unpacked_dims) # get_size(t.shape, dim) THEN Err("ValueError: cannot reshape array")
         ELSE NativeTensor([native EXCEPT !.shp = sizes(shape_replace(t.shape, dim, unpacked_dims))],
                           shape_replace(t.shape, dim, unpacked_dims), shape_replace(t.shape, dim, unpacked_dims)))
    ELSE IF dim = t.stack_dim[1].name
    THEN With(unpack_stacks(t.tensors, unpacked_dims), LAMBDA tensors :
         IF AnyErr(tensors) THEN FirstErr(tensors)
         ELSE IF Len(tensors) # 1 THEN Err("AssertionError")
         ELSE tensors[1])
    ELSE Err("NotImplementedError")

(***************************************************************************)
(* The tensor state machine: a value is constructed with tensor()/wrap()  *)
(* and then transformed by the operations of its representation.          *)
(***************************************************************************)
\* number of operations applied after the construction
MaxSteps == 2

X(n) == Dim("x", SPATIAL_DIM, n)

Y(n) == Dim("y", SPATIAL_DIM, n)

B(n) == Dim("b", BATCH_DIM, n)

Object == [kind |-> "Object"]

\* the calls tensor(data, shape) made at construction; -1 is an undefined size
Constructions ==
    { <<Number(10), NoShape>>,
      <<from_list(<<2>>, <<1, 2>>), GivenShape(<<X(0 - 1)>>)>>,
      <<from_list(<<3>>, <<1, 2, 3>>), GivenShape(<<X(0 - 1)>>)>>,
      <<from_list(<<2, 2>>, <<1, 2, 3, 4>>), GivenShape(<<X(0 - 1), Y(0 - 1)>>)>>,
      <<from_list(<<0>>, <<>>), GivenShape(<<X(0 - 1), Y(2)>>)>>,
      <<from_list(<<2>>, <<1, 2>>), GivenShape(<<X(3)>>)>> }

\* the values of tensor([1, 2], spatial('x')), tensor([1, 2, 3], spatial('x')),
\* tensor([5, 7], spatial('y')), tensor([[1, 2], [3, 4]], spatial('y', 'x')) and wrap(3)
vx2 == NativeTensor(from_list(<<2>>, <<1, 2>>), <<X(2)>>, <<X(2)>>)

vx3 == NativeTensor(from_list(<<3>>, <<1, 2, 3>>), <<X(3)>>, <<X(3)>>)

vy2 == NativeTensor(from_list(<<2>>, <<5, 7>>), <<Y(2)>>, <<Y(2)>>)

myx == NativeTensor(from_list(<<2, 2>>, <<1, 2, 3, 4>>), <<Y(2), X(2)>>, <<Y(2), X(2)>>)

scalar3 == NativeTensor(from_list(<<>>, <<3>>), EMPTY_SHAPE, EMPTY_SHAPE)

\* a constant along x, the value of expand_tensor(wrap(3), spatial(x=2)): nothing is stored for x
virtual_x == NativeTensor(from_list(<<>>, <<3>>), EMPTY_SHAPE, <<X(2)>>)

\* a tensor along b with three entries
vb3 == NativeTensor(from_list(<<3>>, <<1, 2, 3>>), <<B(3)>>, <<B(3)>>)

\* a stack whose components differ in the size of x
ragged == TensorStack(<<vx2, vx3>>, <<B(0)>>)

a_layout == Layout(List(<<Number(1), Number(2)>>), <<B(2)>>)

\* second operands of t._op2: raw Python values and tensors of every representation
Operands == { Number(10), Object, vy2, virtual_x, vb3, ragged, a_layout, Sparse(<<X(2)>>, TRUE) }

\* wrap(10) and tensor([5, 7, 9], spatial('y'))
scalar10 == NativeTensor(from_list(<<>>, <<10>>), EMPTY_SHAPE, EMPTY_SHAPE)

vy3 == NativeTensor(from_list(<<3>>, <<5, 7, 9>>), <<Y(3)>>, <<Y(3)>>)

\* stacks that require broadcasting, along y with components along x and along x with
\* components along y
ragged_y == TensorStack(<<vx2, vx3>>, <<Y(0)>>)

ragged_x == TensorStack(<<vy2, vy3>>, <<X(0)>>)

\* a stack of two numbers along b, which does not require broadcasting
flat_b == TensorStack(<<scalar3, scalar10>>, <<B(0)>>)

\* a stack of stacks
stack_of_stacks == TensorStack(<<ragged, ragged>>, <<Y(0)>>)

\* the second tensor of a list that is disassembled
ReplaySeconds == { virtual_x, stack_of_stacks }

\* tensors along x that can be told apart: the k-th one holds k * 10 + 1, k * 10 + 2, ...
numbered(k, n) == NativeTensor(from_list(<<n>>, [i \in 1..n |-> k * 10 + i]), <<X(n)>>, <<X(n)>>)

\* the further components of a stack of 4, 6 and 8 components of different sizes
FurtherComponents ==
    { <<numbered(1, 3), numbered(2, 2), numbered(3, 3)>>,
      <<numbered(1, 3), numbered(2, 3), numbered(3, 2), numbered(4, 2), numbered(5, 3)>>,
      <<numbered(1, 3), numbered(2, 2), numbered(3, 3), numbered(4, 2), numbered(5, 3), numbered(6, 2), numbered(7, 3)>> }

U(n) == Dim("u", SPATIAL_DIM, n)

V(n) == Dim("v", SPATIAL_DIM, n)

W(n) == Dim("w", SPATIAL_DIM, n)

\* the dimensions into which a dimension is unpacked
UnpackedDims ==
    { <<U(2)>>, <<U(1), V(2)>>, <<U(2), V(2)>>, <<U(4), V(1)>>, <<U(2), V(3)>>, <<U(3), V(2)>>,
      <<U(2), V(2), W(2)>>, <<U(2), V(1), W(3)>>, <<U(4), V(2)>>, <<U(3)>> }

\* the second operands of a + b
Addends == { scalar10, vx2, vx3, vy2, vb3, virtual_x, flat_b, ragged, ragged_y, ragged_x }

\* the other operand of custom_op2
Tensors == { vy2, ragged, a_layout, Sparse(<<X(2)>>, TRUE), Sparse(<<X(2)>>, FALSE) }

\* the other component of a new stack
Components == { vx2, scalar3, myx }

Kernels == {"sub"}

Selections ==
    { <<IntSel("x", 0)>>, <<SliceSel("x", 1, 2)>>, <<IntSel("b", 1)>>, <<SliceSel("y", 0, 1)>>,
      <<IntSel("b", 0), IntSel("x", 1)>>, <<IntSel("b", 1), IntSel("x", 2)>>, <<IntSel("z", 0)>>, <<SliceSel("z", 0, 1)>> }

DimNames == {"x", "b", "z"}

\* dims arguments of expand_tensor: uniform ones and one whose size varies along b
ExpandDims ==
    { <<>>, <<Y(2)>>, <<B(2)>>,
      <<B(2), [name |-> "y", type |-> SPATIAL_DIM, size |-> <<2, 3>>, along |-> "b", item_names |-> <<>>]>> }

\* new shapes for _with_shape_replaced (sizes are taken from the tensor)
Renamings == { <<Y(0)>>, <<Y(0), X(0)>>, <<B(0), Y(0)>> }

StackDims == { <<B(0)>>, <<X(0)>> }

\* dimension orders for Tensor.native: names of tensors and the name z that no tensor has
Orders ==
    { <<>>, <<"x">>, <<"y">>, <<"b">>, <<"x", "y">>, <<"y", "x">>, <<"x", "z">>, <<"z", "x">>,
      <<"b", "x">>, <<"x", "b">>, <<"y", "z", "x">>, <<"b", "y", "x">> }

NoArg == [kind |-> "None"]

\* the frames of _EQUALITY_REDUCE
ELEMENTWISE == [type |-> "elementwise"]

BY_REF == [type |-> "ref"]

ShapeAndValue(rel_tolerance, abs_tolerance, equal_nan) ==
    [type |-> "shape_and_value", rel_tolerance |-> rel_tolerance, abs_tolerance |-> abs_tolerance, equal_nan |-> equal_nan]

\* the region that owns the frame the module starts with
MODULE_LEVEL == <<0, 0>>

NumThreads == 2

Threads == 1..NumThreads

\* _EQUALITY_REDUCE = [{'type': 'elementwise'}] at import, no region open, nothing compared
\* BroadcastFormatter.__init__
InitFormatter ==
    /\ BROADCAST_FORMATTER = [values |-> None]
    /\ last = None

InitEquality ==
    /\ InitFormatter
    /\ EQUALITY_REDUCE = <<ELEMENTWISE>>
    /\ pushed_by = <<MODULE_LEVEL>>
    /\ regions = [th \in Threads |-> <<>>]
    /\ nested = TRUE
    /\ last_exit = None
    /\ compared = None

Call(name, fn, arg) == [name |-> name, fn |-> fn, arg |-> arg]

NoFn == Fn("none", FALSE)

Init ==
    /\ cur = None
    /\ prev = None
    /\ other = None
    /\ op = Call("init", NoFn, NoArg)
    /\ trace = <<>>
    /\ steps = 0
    /\ InitEquality
    /\ tree = None
    /\ skel = None
    /\ produced = <<>>
    /\ leaves = <<>>
    /\ rest = <<>>
    /\ out = None
    /\ tpc = "idle"

\* the effect of one call on the tensor variables
Step(name, fn, arg, y, result, attempts) ==
    /\ cur' = result
    /\ prev' = cur
    /\ other' = y
    /\ op' = Call(name, fn, arg)
    /\ trace' = attempts
    /\ steps' = steps + 1
    /\ UNCHANGED treeVars
    /\ UNCHANGED eqVars
    /\ UNCHANGED fmtVars

CanStep == cur.kind \in {"NativeTensor", "TensorStack", "Layout"} /\ steps < MaxSteps

\* tensor(data, shape) / wrap(data, shape)
Construct ==
    /\ cur = None /\ steps = 0 /\ tpc = "idle"
    /\ \E c \in Constructions :
          /\ cur' = tensor(c[1], c[2])
          /\ prev' = c[1]
          /\ op' = Call("tensor", NoFn, [kind |-> "Shape", given |-> c[2].given, shape |-> c[2].shape])
          /\ UNCHANGED <<other, trace, steps>>
          /\ UNCHANGED treeVars
          /\ UNCHANGED eqVars
          /\ UNCHANGED fmtVars

\* t._op1(native_function)
DoOp1 == CanStep /\ \E f \in {"neg", "none"} : Step("_op1", Fn(f, FALSE), NoArg, None, op1(cur, f), <<>>)

\* t._op2(y, operator, native_function)
DoOp2 == CanStep /\ \E y \in Operands, f \in Kernels, rev \in BOOLEAN : Step("_op2", Fn(f, rev), NoArg, y, op2(cur, y, Fn(f, rev)), <<>>)

\* custom_op2(t, y, ...) and custom_op2(y, t, ...)
DoCustomOp2 ==
    /\ CanStep
    /\ \E y \in Tensors, f \in Kernels, left \in BOOLEAN :
          \E x1 \in {IF left THEN cur ELSE y}, x2 \in {IF left THEN y ELSE cur} :
              Step("custom_op2", Fn(f, FALSE), [kind |-> "Side", left |-> left], y, custom_op2(x1, x2, Fn(f, FALSE)), custom_op2_calls(x1, x2, Fn(f, FALSE)).attempts)

\* a slice of the selection stays within the dimension wherever the tensor has it
SliceInRange(t, selection) ==
    \A i \in 1..Len(selection) :
        (~selection[i].int /\ contains(t.shape, selection[i].name)) =>
            \A k \in 1..Len(get_dim(t.shape, selection[i].name).size) : selection[i].stop <= get_dim(t.shape, selection[i].name).size[k]

\* t._getitem(selection)
DoGetItem ==
    /\ CanStep
    /\ \E selection \in Selections :
          /\ SliceInRange(cur, selection)
          /\ Step("_getitem", NoFn, [kind |-> "Selection", selection |-> selection], None, getitem(cur, selection), <<>>)

\* t._unstack(dim): the result is a tuple of tensors
DoUnstack == CanStep /\ \E dim \in DimNames : Step("_unstack", NoFn, [kind |-> "Name", name |-> dim], None, unstack(cur, dim), <<>>)

\* one element of the tuple is taken for further operations
Pick ==
    /\ cur.kind = "Tuple"
    /\ \E i \in 1..Len(cur.items) :
          /\ cur' = cur.items[i]
          /\ prev' = cur
          /\ op' = Call("pick", NoFn, Number(i))
          /\ UNCHANGED <<other, trace, steps>>
          /\ UNCHANGED treeVars
          /\ UNCHANGED eqVars
          /\ UNCHANGED fmtVars

\* TensorStack(t._unstack(dim), stack_dim) with the dimension dim of t as stack_dim: the tuple
\* just returned by _unstack is stacked again; `other` keeps t
DoRestack ==
    /\ cur.kind = "Tuple"
    /\ op.name = "_unstack"
    /\ prev.kind \in {"NativeTensor", "TensorStack"}
    /\ contains(prev.shape, op.arg.name)
    /\ cur' = TensorStack(cur.items, <<get_dim(prev.shape, op.arg.name)>>)
    /\ prev' = cur
    /\ other' = prev
    /\ op' = Call("restack", NoFn, op.arg)
    /\ steps' = steps + 1
    /\ UNCHANGED trace
    /\ UNCHANGED treeVars
    /\ UNCHANGED eqVars
    /\ UNCHANGED fmtVars

\* a + b and b + a for the current tensor a: Tensor.__add__ / __radd__ with a._op2(b) first
DoAdd ==
    /\ CanStep
    /\ cur.kind \in {"NativeTensor", "TensorStack"}
    /\ \E b \in Addends :
       \E direct \in {op2(cur, b, Fn("add", FALSE))}, swapped \in {operator(Fn("add", FALSE), b, cur)} :
          Step("add", Fn("add", FALSE), [kind |-> "Sum", direct |-> direct, swapped |-> swapped], b, operator(Fn("add", FALSE), cur, b), <<>>)

\* assemble_tensors(natives, specs) for the natives and specs of disassemble_tensors([t, second], expand)
DoReplay ==
    /\ CanStep
    /\ cur.kind \in {"NativeTensor", "TensorStack"}
    /\ \E second \in ReplaySeconds, expand \in BOOLEAN :
       \E d \in {disassemble_tensors(<<cur, second>>, expand)} :
          Step("assemble_tensors", NoFn, [kind |-> "Replay", expand |-> expand, disassembled |-> d], second,
               IF IsErr(d) THEN d ELSE assemble_tensors(d.natives, d.specs), <<>>)

\* serialize_spec(t._spec_dict()), as save() stores it
DoSerializeSpec ==
    /\ CanStep
    /\ cur.kind \in {"NativeTensor", "TensorStack"}
    /\ Step("serialize_spec", NoFn, NoArg, None, serialize_spec(spec_dict(cur)), <<>>)

\* TensorStack((t, ...), batch('b')) of a tensor along x with three, five or seven further ones
DoStackMany ==
    /\ CanStep
    /\ cur.kind = "NativeTensor"
    /\ names(cur.shape) = <<"x">>
    /\ \E further \in FurtherComponents :
          Step("TensorStack", NoFn, [kind |-> "Shape", given |-> TRUE, shape |-> <<B(0)>>], None, TensorStack(<<cur>> \o further, <<B(0)>>), <<>>)

\* t.__unpack_dim__(dim, unpacked_dims) for a dimension of t and unpacked dimensions that t
\* does not have yet: a Shape holds every name once
DoUnpackDim ==
    /\ CanStep
    /\ cur.kind \in {"NativeTensor", "TensorStack"}
    /\ \E i \in 1..Len(cur.shape), unpacked_dims \in UnpackedDims :
          /\ \A j \in 1..Len(unpacked_dims) : ~contains(cur.shape, unpacked_dims[j].name)
          /\ Step("__unpack_dim__", NoFn, [kind |-> "Unpack", name |-> cur.shape[i].name, dims |-> unpacked_dims], None,
                  Tensor_unpack_dim(cur, cur.shape[i].name, unpacked_dims), <<>>)

\* t._with_shape_replaced(new_shape)
DoWithShapeReplaced ==
    /\ CanStep
    /\ \E new_shape \in Renamings :
          Step("_with_shape_replaced", NoFn, [kind |-> "Shape", given |-> TRUE, shape |-> new_shape], None, with_shape_replaced(cur, new_shape), <<>>)

\* cached(t)
DoCached == CanStep /\ Step("cached", NoFn, NoArg, None, cached(cur), <<>>)

\* t._cached(dims) of a NativeTensor, dims being dimensions of t
DoNativeCached ==
    /\ CanStep
    /\ cur.kind = "NativeTensor"
    /\ \E i \in 1..Len(cur.shape) :
          Step("_cached", NoFn, [kind |-> "Shape", given |-> TRUE, shape |-> <<cur.shape[i]>>], None, cached_dims(cur, SomeDims(<<cur.shape[i]>>)), <<>>)

\* expand_tensor(t, dims)
DoExpand ==
    /\ CanStep
    /\ \E dims \in ExpandDims :
          Step("expand_tensor", NoFn, [kind |-> "Shape", given |-> TRUE, shape |-> dims], None, expand_tensor(cur, dims), <<>>)

\* t.native(order, force_expand) of a NativeTensor: the result is a backend array
DoNative ==
    /\ CanStep
    /\ cur.kind = "NativeTensor"
    /\ \E order \in {ListOrder(ns) : ns \in Orders} \cup {StrOrder(ns) : ns \in Orders} \cup {NoOrder}, force_expand \in BOOLEAN :
          Step("native", NoFn, [kind |-> "Order", order |-> order, force_expand |-> force_expand], None, Tensor_native(cur, order, force_expand), <<>>)

\* TensorStack((t, y), stack_dim)
DoStack ==
    /\ CanStep
    /\ cur.kind # "Layout"
    /\ \E y \in Components, stack_dim \in StackDims :
          Step("TensorStack", NoFn, [kind |-> "Shape", given |-> TRUE, shape |-> stack_dim], y, TensorStack(<<cur, y>>, stack_dim), <<>>)

Next ==
    \/ Construct
    \/ DoOp1
    \/ DoOp2
    \/ DoCustomOp2
    \/ DoGetItem
    \/ DoUnstack
    \/ Pick
    \/ DoRestack
    \/ DoWithShapeReplaced
    \/ DoCached
    \/ DoNativeCached
    \/ DoExpand
    \/ DoNative
    \/ DoStack

Spec == Init /\ [][Next]_vars

\* stacks are built from constructed tensors and then added, unpacked, disassembled and
\* assembled again, or described by their serialized spec
NextStacks ==
    \/ Construct
    \/ DoStack
    \/ DoStackMany
    \/ DoAdd
    \/ DoReplay
    \/ DoSerializeSpec
    \/ DoUnpackDim

SpecStacks == Init /\ [][NextStacks]_vars

(***************************************************************************)
(* The tree protocol: disassemble_tree splits a nested container into a   *)
(* skeleton and its tensor leaves, assemble_tree puts them together.      *)
(* Python values: None, tensors, List, Tuple, Dict (keys in insertion     *)
(* order), backend arrays, Str (a string) and Object (any other object).  *)
(***************************************************************************)
MISSING_TENSOR == "__missing__"

NATIVE_TENSOR == "__native__"

LAYOUT_KEY == "__layout__"

\* Shape._to_dict(include_sizes=False) and Shape._from_dict: the sizes are not stored
Shape_to_dict(s) == [kind |-> "ShapeDict", names |-> names(s), types |-> [i \in 1..Len(s) |-> s[i].type]]

Shape_from_dict(d) == [i \in 1..Len(d.names) |-> Dim(d.names[i], d.types[i], 0 - 1)]

DimName(i) == <<"dim0", "dim1", "dim2">>[i + 1]

\* the Shape given to a raw backend array: dim0, dim1, ... without a type
native_leaf_shape(szs) == [i \in 1..Len(szs) |-> Dim(DimName(i - 1), "none", szs[i])]

Flat(keys, values) == [keys |-> keys, values |-> values]

RECURSIVE disassemble_tree(_, _)
disassemble_tree(obj, cache) ==
    LET inner == disassemble_tree(obj.obj, cache)
        items == [i \in 1..Len(obj.items) |-> disassemble_tree(obj.items[i], cache)]
        vals == [i \in 1..Len(obj.vals) |-> disassemble_tree(obj.vals[i], cache)]
    IN IF obj.kind = "None" THEN Flat(Str(MISSING_TENSOR), <<>>)
       ELSE IF obj.kind = "Layout"
       THEN Flat(Dict(<<LAYOUT_KEY, "stack_dim", "obj">>, <<Number(1), Shape_to_dict(obj.stack_dim), inner.keys>>), inner.values)
       ELSE IF IsTensor(obj) THEN Flat(None, <<IF cache THEN cached(obj) ELSE obj>>)
       ELSE IF obj.kind \in {"Tuple", "List"}
       THEN Flat([kind |-> obj.kind, items |-> [i \in 1..Len(items) |-> items[i].keys]], Concat([i \in 1..Len(items) |-> items[i].values]))
       ELSE IF obj.kind = "Dict"
       THEN Flat(Dict(obj.keys, [i \in 1..Len(vals) |-> vals[i].keys]), Concat([i \in 1..Len(vals) |-> vals[i].values]))
       ELSE IF obj.kind = "Array"
       THEN Flat(Str(NATIVE_TENSOR), <<NativeTensor(obj, native_leaf_shape(staticshape(obj)), native_leaf_shape(staticshape(obj)))>>)
       ELSE Flat(obj, <<>>)

\* the result of assemble_tree and the values that are left in the list
Asm(value, values) == [kind |-> "Asm", value |-> value, values |-> values]

RECURSIVE assemble_tree(_, _)
RECURSIVE assemble_items(_, _)
\* [assemble_tree(item, values) for item in items], left to right on the one list of values
assemble_items(items, values) ==
    IF items = <<>> THEN Asm(<<>>, values)
    ELSE LET first == assemble_tree(Head(items), values)
             others == assemble_items(Tail(items), first.values)
         IN IF IsErr(first) THEN first
            ELSE IF IsErr(others) THEN others
            ELSE Asm(<<first.value>> \o others.value, others.values)

assemble_tree(obj, values) ==
    LET value == Head(values)
        items == assemble_items(obj.items, values)
        vals == assemble_items(obj.vals, values)
        content == assemble_tree(dict_get(obj, "obj"), values)
    IN IF obj.kind = "Str" /\ obj.s = MISSING_TENSOR THEN Asm(None, values)
       ELSE IF obj.kind = "Str" /\ obj.s = NATIVE_TENSOR
       THEN IF values = <<>> THEN Err("IndexError: pop from empty list")
            ELSE IF value.kind # "NativeTensor" THEN Err("AssertionError: Failed to assemble tree structure")
            ELSE IF value.shape = EMPTY_SHAPE THEN Asm(Number(value.native.data[1]), Tail(values))
            ELSE Asm(value.native, Tail(values))
       ELSE IF obj.kind = "None"
       THEN IF values = <<>> THEN Err("IndexError: pop from empty list")
            ELSE IF ~IsTensor(value) THEN Err("AssertionError")
            ELSE Asm(value, Tail(values))
       ELSE IF obj.kind \in {"List", "Tuple"}
       THEN IF IsErr(items) THEN items ELSE Asm([kind |-> obj.kind, items |-> items.value], items.values)
       ELSE IF obj.kind = "Dict" /\ has_key(obj, LAYOUT_KEY)
       THEN IF ~has_key(obj, "obj") THEN Err("KeyError: obj")
            ELSE IF IsErr(content) THEN content
            ELSE IF ~has_key(obj, "stack_dim") THEN Err("KeyError: stack_dim")
            ELSE IF dict_get(obj, "stack_dim").kind # "ShapeDict" THEN Err("TypeError: not a shape dict")
            ELSE Asm(Layout(content.value, Shape_from_dict(dict_get(obj, "stack_dim"))), content.values)
       ELSE IF obj.kind = "Dict"
       THEN IF IsErr(vals) THEN vals ELSE Asm(Dict(obj.keys, vals.value), vals.values)
       ELSE Asm(obj, values)

\* number of items of the containers that are disassembled
MaxItems == 2

raw_array == from_list(<<2>>, <<1, 2>>)

TreeLeaves ==
    { None, vx2, virtual_x, ragged, raw_array, Object,
      Str("abc"), Str(MISSING_TENSOR), Str(NATIVE_TENSOR),
      Layout(List(<<vx2, Str("a")>>), <<B(2)>>) }

ItemSeqs == UNION { [1..n -> TreeLeaves] : n \in 0..MaxItems }

DictKeys == { <<"k">>, <<LAYOUT_KEY>>, <<"k", "obj">> }

Trees ==
    TreeLeaves
    \cup { List(items) : items \in ItemSeqs }
    \cup { Tuple(items) : items \in ItemSeqs }
    \cup UNION { { Dict(keys, vals) : vals \in { v \in ItemSeqs : Len(v) = Len(keys) } } : keys \in DictKeys }
    \cup { List(<<Tuple(<<vx2, None>>), Dict(<<"k">>, <<v>>)>>) : v \in TreeLeaves }

InitTree ==
    /\ tree \in Trees
    /\ skel = None
    /\ produced = <<>>
    /\ leaves = <<>>
    /\ rest = <<>>
    /\ out = None
    /\ tpc = "start"
    /\ cur = None
    /\ prev = None
    /\ other = None
    /\ op = Call("init", NoFn, NoArg)
    /\ trace = <<>>
    /\ steps = 0
    /\ InitEquality

\* skel, leaves = disassemble_tree(tree, cache)
Disassemble ==
    /\ tpc = "start"
    /\ \E cache \in BOOLEAN :
          /\ skel' = disassemble_tree(tree, cache).keys
          /\ produced' = disassemble_tree(tree, cache).values
          /\ leaves' = disassemble_tree(tree, cache).values
          /\ op' = Call("disassemble_tree", NoFn, [kind |-> "Flag", cache |-> cache])
    /\ tpc' = "flat"
    /\ UNCHANGED <<tree, rest, out, cur, prev, other, trace, steps>>
    /\ UNCHANGED eqVars
    /\ UNCHANGED fmtVars

\* one leaf is replaced by an updated tensor before the tree is assembled
ReplaceLeaf ==
    /\ tpc = "flat"
    /\ leaves = produced
    /\ \E i \in 1..Len(leaves) :
          /\ leaves' = [leaves EXCEPT ![i] = op1(leaves[i], "neg")]
          /\ op' = Call("replace", NoFn, Number(i))
    /\ UNCHANGED <<tree, skel, produced, rest, out, tpc, cur, prev, other, trace, steps>>
    /\ UNCHANGED eqVars
    /\ UNCHANGED fmtVars

\* out = assemble_tree(skel, leaves); rest is what is left of the list of leaves
Assemble ==
    /\ tpc = "flat"
    /\ LET r == assemble_tree(skel, leaves)
       IN IF IsErr(r) THEN out' = r /\ rest' = leaves
          ELSE out' = r.value /\ rest' = r.values
    /\ tpc' = "done"
    /\ UNCHANGED <<tree, skel, produced, leaves, op, cur, prev, other, trace, steps>>
    /\ UNCHANGED eqVars
    /\ UNCHANGED fmtVars

NextTree ==
    \/ Disassemble
    \/ ReplaceLeaf
    \/ Assemble

SpecTree == InitTree /\ [][NextTree]_vars

(***************************************************************************)
(* Equality modes: _EQUALITY_REDUCE and the two context managers           *)
(***************************************************************************)
\* the Python expressions a == b and a != b: a's method, then b's when a's returns
\* NotImplemented, then the comparison of identities
PyEq(a, b, same) ==
    With(eq(a, b, same), LAMBDA first :
        IF first # NotImplemented THEN first
        ELSE With(eq(b, a, same), LAMBDA second : IF second # NotImplemented THEN second ELSE Bool(same)))

PyNe(a, b, same) ==
    With(ne(a, b, same), LAMBDA first :
        IF first # NotImplemented THEN first
        ELSE With(ne(b, a, same), LAMBDA second : IF second # NotImplemented THEN second ELSE Bool(~same)))

\* the deepest nesting of regions in one thread, and the number of regions entered in a run
MaxDepth == 2

MaxRegions == 3

\* (rel_tolerance, abs_tolerance) of the regions opened
Tolerances == { <<0, 0>>, <<0, 1>> }

\* [2, 3] along x
vx2_plus1 == NativeTensor(from_list(<<2>>, <<2, 3>>), <<X(2)>>, <<X(2)>>)

\* the objects that are compared; an object is identified by its position, so that two
\* positions may hold equal values
EqObjects == << vx2, vx2, vx2_plus1, vx3, virtual_x, a_layout >>

\* list.pop(-1) that leaves the list as it is
pop_nothing(stack) == stack

\* _EQUALITY_REDUCE.pop(-1): the list that remains
pop(stack) == SubSeq(stack, 1, Len(stack) - 1)

\* _EQUALITY_REDUCE.append(frame) on entering a region in thread th
Enter(th, frame) ==
    /\ Len(regions[th]) < MaxDepth
    /\ steps' = steps + 1
    /\ EQUALITY_REDUCE' = Append(EQUALITY_REDUCE, frame)
    /\ pushed_by' = Append(pushed_by, <<th, Len(regions[th]) + 1>>)
    /\ regions' = [regions EXCEPT ![th] = Append(@, [id |-> <<th, Len(regions[th]) + 1>>, spec |-> frame])]
    /\ last_exit' = None
    /\ compared' = None
    /\ UNCHANGED nested
    /\ UNCHANGED <<cur, prev, other, op, trace>>
    /\ UNCHANGED treeVars
    /\ UNCHANGED fmtVars

\* finally: assert _EQUALITY_REDUCE.pop(-1) == spec, on leaving the innermost region of thread
\* th, after the body returned or raised
Leave(th, raised) ==
    /\ regions[th] # <<>>
    /\ EQUALITY_REDUCE' = pop(EQUALITY_REDUCE)
    /\ pushed_by' = pop(pushed_by)
    /\ regions' = [regions EXCEPT ![th] = SubSeq(@, 1, Len(@) - 1)]
    /\ nested' = (nested /\ top_frame(pushed_by) = top_frame(regions[th]).id)
    /\ last_exit' = [thread |-> th,
                     region |-> top_frame(regions[th]).id,
                     removed |-> top_frame(pushed_by),
                     passed |-> (top_frame(EQUALITY_REDUCE) = top_frame(regions[th]).spec),
                     raised |-> raised]
    /\ compared' = None
    /\ UNCHANGED tensorVars
    /\ UNCHANGED treeVars
    /\ UNCHANGED fmtVars

\* with equality_by_ref(): the frame is pushed
equality_by_ref_enter ==
    \E th \in Threads :
        /\ steps < MaxRegions
        /\ Enter(th, BY_REF)

\* the region of equality_by_ref is left
equality_by_ref_exit ==
    \E th \in Threads, raised \in BOOLEAN :
        /\ regions[th] # <<>>
        /\ top_frame(regions[th]).spec.type = "ref"
        /\ Leave(th, raised)

\* with equality_by_shape_and_value(rel_tolerance, abs_tolerance): the frame is pushed
equality_by_shape_and_value_enter ==
    \E th \in Threads, tol \in Tolerances :
        /\ steps < MaxRegions
        /\ Enter(th, ShapeAndValue(tol[1], tol[2], FALSE))

\* the region of equality_by_shape_and_value is left
equality_by_shape_and_value_exit ==
    \E th \in Threads, raised \in BOOLEAN :
        /\ regions[th] # <<>>
        /\ top_frame(regions[th]).spec.type = "shape_and_value"
        /\ Leave(th, raised)

\* a == b and a != b are evaluated for two of the objects; a comparison changes nothing, so
\* one comparison is recorded between two changes of the stack
Compare ==
    /\ compared = None
    /\ \E i, j \in 1..Len(EqObjects) :
          compared' = [a |-> i, b |-> j, frame |-> top_frame(EQUALITY_REDUCE),
                       eq |-> PyEq(EqObjects[i], EqObjects[j], i = j),
                       ne |-> PyNe(EqObjects[i], EqObjects[j], i = j)]
    /\ last_exit' = None
    /\ UNCHANGED <<EQUALITY_REDUCE, pushed_by, regions, nested>>
    /\ UNCHANGED tensorVars
    /\ UNCHANGED treeVars
    /\ UNCHANGED fmtVars

NextEquality ==
    \/ equality_by_ref_enter
    \/ equality_by_ref_exit
    \/ equality_by_shape_and_value_enter
    \/ equality_by_shape_and_value_exit
    \/ Compare

SpecEquality == Init /\ [][NextEquality]_vars

(***************************************************************************)
(* Layouts: a tree is wrapped with layout() and the Layout is transformed  *)
(* by its methods                                                          *)
(***************************************************************************)
\* number of methods applied to the Layout that layout() returned
MaxLayoutSteps == 1

K(n) == Dim("k", CHANNEL_DIM, n)

Inner(n) == Dim("inner", CHANNEL_DIM, n)

AB == <<Str("a"), Str("b")>>

\* [1, 2], [[1, 2], [3, 4]], [[1, 2], [1, 2, 3]], (1, 2), dicts with str keys, dicts with an int
\* key at the first and at the second level, and a single object
LayoutTrees ==
    { List(<<Number(1), Number(2)>>),
      List(<<List(<<Number(1), Number(2)>>), List(<<Number(3), Number(4)>>)>>),
      List(<<List(<<Number(1), Number(2)>>), List(<<Number(1), Number(2), Number(3)>>)>>),
      Tuple(<<Number(1), Number(2)>>),
      Dict(AB, <<Number(1), Number(2)>>),
      Dict(AB, <<List(<<Number(1), Number(2)>>), List(<<Number(3), Number(4)>>)>>),
      List(<<Dict(AB, <<Number(1), Number(2)>>), Dict(AB, <<Number(3), Number(4)>>)>>),
      Dict(<<Number(1), Str("b")>>, <<Number(1), Number(2)>>),
      List(<<Dict(AB, <<Number(1), Number(2)>>), Dict(<<Str("a"), Number(7)>>, <<Number(3), Number(4)>>)>>),
      Number(5) }

\* the shape arguments of layout(): one or two dimensions, sizes undefined (-1) or given
LayoutShapes ==
    { <<K(0 - 1)>>, <<K(2)>>, <<K(0 - 1), Inner(0 - 1)>>, <<K(2), Inner(2)>>, <<K(2), Inner(0 - 1)>> }

k_layout == Layout(List(<<Number(10), Number(20)>>), <<K(2)>>)

inner_layout == Layout(List(<<Number(10), Number(20)>>), <<Inner(2)>>)

k3_layout == Layout(List(<<Number(10), Number(20), Number(30)>>), <<K(3)>>)

\* other operands of _op2 and second values of __stack__
LayoutOperands == { Number(10), vx2, k_layout, inner_layout, a_layout }

StackedWith == { k_layout, k3_layout, vx2 }

LayoutSelections ==
    { <<IntSel("k", 0)>>, <<SliceSel("k", 0, 1)>>, <<IntSel("inner", 1)>>, <<SliceSel("k", 1, 2), IntSel("inner", 0)>> }

LayoutExpandDims == { <<K(2)>>, <<B(2)>>, <<B(2), Y(3)>> }

PackedDims == { <<"k">>, <<"inner">>, <<"k", "inner">> }

CanStepLayout == cur.kind = "Layout" /\ steps < MaxLayoutSteps

\* layout(objects, shape)
DoLayout ==
    /\ cur = None /\ steps = 0 /\ tpc = "idle"
    /\ \E objects \in LayoutTrees, shape \in LayoutShapes :
          /\ cur' = layout(objects, shape)
          /\ prev' = objects
          /\ op' = Call("layout", NoFn, [kind |-> "Shape", given |-> TRUE, shape |-> shape])
          /\ UNCHANGED <<other, trace, steps>>
          /\ UNCHANGED treeVars
          /\ UNCHANGED eqVars
          /\ UNCHANGED fmtVars

\* layout._op1(native_function)
LayoutOp1 == CanStepLayout /\ Step("_op1", Fn("neg", FALSE), NoArg, None, op1(cur, "neg"), <<>>)

\* the objects below the levels of the stack dimensions are numbers
NumberLeaves(t) == \A leaf \in Range(Layout_as_list_recursive(t.obj, Len(t.stack_dim))) : leaf.kind = "Number"

\* layout._op2(other, operator, native_function); a list is combined with a number only (with a
\* Tensor it would be converted by compatible_tensor)
LayoutOp2 ==
    /\ CanStepLayout
    /\ \E y \in LayoutOperands :
          /\ y.kind = "Number" \/ NumberLeaves(cur)
          /\ Step("_op2", Fn("add", FALSE), NoArg, y, op2(cur, y, Fn("add", FALSE)), <<>>)

\* layout.__cast__(dtype)
LayoutCast == CanStepLayout /\ Step("__cast__", NoFn, NoArg, None, Layout_cast(cur), <<>>)

\* layout.__expand__(dims)
LayoutExpand ==
    CanStepLayout /\ \E dims \in LayoutExpandDims : Step("__expand__", NoFn, [kind |-> "Shape", given |-> TRUE, shape |-> dims], None, Layout_expand(cur, dims), <<>>)

\* layout.__stack__((layout, other), dim)
LayoutStack ==
    CanStepLayout /\ \E y \in StackedWith \cup {cur} :
        Step("__stack__", NoFn, [kind |-> "Shape", given |-> TRUE, shape |-> <<B(2)>>], y, Layout_stack(cur, <<cur, y>>, <<B(2)>>), <<>>)

\* layout.__pack_dims__(dims, packed_dim, pos)
LayoutPackDims ==
    CanStepLayout /\ \E dims \in PackedDims :
        /\ Range(dims) \subseteq Range(names(cur.stack_dim))
        /\ Step("__pack_dims__", NoFn, [kind |-> "Names", names |-> dims], None, Layout_pack_dims(cur, dims, <<Y(0 - 1)>>), <<>>)

\* layout._getitem(selection)
LayoutGetItem ==
    CanStepLayout /\ \E selection \in LayoutSelections :
        Step("_getitem", NoFn, [kind |-> "Selection", selection |-> selection], None, getitem(cur, selection), <<>>)

NextLayout ==
    \/ DoLayout
    \/ LayoutOp1
    \/ LayoutOp2
    \/ LayoutCast
    \/ LayoutExpand
    \/ LayoutStack
    \/ LayoutPackDims
    \/ LayoutGetItem

SpecLayout == Init /\ [][NextLayout]_vars

(***************************************************************************)
(* BroadcastFormatter: -f-f"{tensor}" first evaluates -f (__neg__), then   *)
(* the f-string, which calls Tensor.__format__ for every field, then       *)
(* __sub__, which formats the string.  A format spec is the tuple of its  *)
(* ':'-separated parts; a string is known by the number of fields {0},    *)
(* {1}, ... that it holds.                                                 *)
(***************************************************************************)
\* the longest list of registered tensors
MaxValues == 3

\* what a call does: the new value of BROADCAST_FORMATTER.values and what is returned or raised
Outcome(new_values, result) == [values |-> new_values, result |-> result]

Placeholder(i, format_spec) == [kind |-> "Str", placeholder |-> i, format_spec |-> format_spec]

Template(fields) == [kind |-> "Str", fields |-> fields]

\* BroadcastFormatter.register_formatted
register_formatted(self, value, format_spec) ==
    Outcome(List(Append(self.values.items, value)), Placeholder(Len(self.values.items) + 1 - 1, format_spec))

\* map_(other.format, *values): str.format raises for a field without a value
map_format(string, args) ==
    IF string.fields > Len(args) THEN Err("IndexError: Replacement index out of range for positional args tuple")
    ELSE [kind |-> "Str", formatted |-> string, args |-> args]

\* a format that leaves the collected values in place
BroadcastFormatter_format_keeps_values(self, string) ==
    IF string.kind # "Str" THEN Outcome(self.values, Err("AssertionError: math.f must be used on a string"))
    ELSE IF self.values = None THEN Outcome(self.values, Err("SyntaxError: Use the syntax -f-f\"{tensor}\". Leading '-' is missing."))
    ELSE Outcome(self.values, map_format(string, self.values.items))

\* BroadcastFormatter.format, which is also __sub__
BroadcastFormatter_format(self, string) ==
    IF string.kind # "Str" THEN Outcome(self.values, Err("AssertionError: math.f must be used on a string"))
    ELSE IF self.values = None THEN Outcome(self.values, Err("SyntaxError: Use the syntax -f-f\"{tensor}\". Leading '-' is missing."))
    ELSE With(map_format(string, self.values.items), LAMBDA result :
         IF IsErr(result) THEN Outcome(self.values, result) ELSE Outcome(None, result))

\* BroadcastFormatter.__neg__
BroadcastFormatter_neg(self) ==
    IF self.values # None THEN Outcome(self.values, Err("SyntaxError: -f called twice without formatting string."))
    ELSE Outcome(List(<<>>), [kind |-> "BroadcastFormatter"])

\* the layout that Tensor.__format__ reads from the parts of the format spec
layout_of(specs) ==
    LET found == SelectSeq(<<"summary", "full", "row", "numpy">>, LAMBDA possible_layout : possible_layout \in Range(specs))
    IN IF Len(found) > 1 THEN Err("AssertionError: Two layout identifiers encountered")
       ELSE IF Len(found) = 1 THEN Str(found[1])
       ELSE Str("auto")

\* Tensor.__format__
Tensor_format(self, format_spec, formatter) ==
    IF formatter.values # None THEN register_formatted(formatter, self, format_spec)
    ELSE IF IsErr(layout_of(format_spec)) THEN Outcome(formatter.values, layout_of(format_spec))
    ELSE Outcome(formatter.values, [kind |-> "Str", tensor |-> self, layout |-> layout_of(format_spec).s])

FormattedTensors == { vx2, scalar3, TensorStack(<<vx2, vx3>>, <<B(0)>>) }

FormatSpecs == { <<>>, <<"summary">>, <<"summary", "full">> }

FormattedStrings == { Template(0), Template(1), Template(2), Template(3), Object }

\* a call of the protocol: its name, its arguments, BROADCAST_FORMATTER.values before it and
\* what it returned or raised
FormatterCall(name, args, outcome) ==
    /\ BROADCAST_FORMATTER' = [BROADCAST_FORMATTER EXCEPT !.values = outcome.values]
    /\ last' = [name |-> name, args |-> args, before |-> BROADCAST_FORMATTER.values, result |-> outcome.result]
    /\ UNCHANGED tensorVars
    /\ UNCHANGED treeVars
    /\ UNCHANGED eqVars

\* -f
Negate ==
    /\ steps = 0
    /\ FormatterCall("__neg__", <<>>, BroadcastFormatter_neg(BROADCAST_FORMATTER))

\* format(t, format_spec), as the f-string evaluates it for a field {t:format_spec}
FormatTensor ==
    /\ BROADCAST_FORMATTER.values # None => Len(BROADCAST_FORMATTER.values.items) < MaxValues
    /\ \E t \in FormattedTensors, format_spec \in FormatSpecs :
          FormatterCall("__format__", <<t, ShapeValue(format_spec)>>, Tensor_format(t, format_spec, BROADCAST_FORMATTER))

\* f - other
Subtract ==
    /\ steps = 0
    /\ \E other_string \in FormattedStrings :
          FormatterCall("__sub__", <<other_string>>, BroadcastFormatter_format(BROADCAST_FORMATTER, other_string))

NextFormatter ==
    \/ Negate
    \/ FormatTensor
    \/ Subtract

SpecFormatter == Init /\ [][NextFormatter]_vars

(***************************************************************************)
(* Properties                                                              *)
(***************************************************************************)
\* the NativeTensors and the TensorStacks that a value holds, at any depth
RECURSIVE natives_of(_)
natives_of(v) ==
    CASE v.kind = "NativeTensor" -> {v}
      [] v.kind = "TensorStack" -> UNION {natives_of(v.tensors[i]) : i \in 1..Len(v.tensors)}
      [] v.kind = "Tuple" -> UNION {natives_of(v.items[i]) : i \in 1..Len(v.items)}
      [] OTHER -> {}

RECURSIVE stacks_of(_)
stacks_of(v) ==
    CASE v.kind = "TensorStack" -> {v} \cup UNION {stacks_of(v.tensors[i]) : i \in 1..Len(v.tensors)}
      [] v.kind = "Tuple" -> UNION {stacks_of(v.items[i]) : i \in 1..Len(v.items)}
      [] OTHER -> {}

Contained(t) ==
    \A i \in 1..Len(t.native_shape) :
        /\ contains(t.shape, t.native_shape[i].name)
        /\ get_dim(t.shape, t.native_shape[i].name).size = t.native_shape[i].size

C2_StackInvariant ==
    \A t \in stacks_of(cur) :
        /\ \A i \in 1..Len(t.tensors) : ~contains(t.tensors[i].shape, t.stack_dim[1].name)
        /\ t.stack_dim[1].size = <<Len(t.tensors)>>

\* a binary operation on a stack returned a stack
C2_Witness ==
    /\ op.name \in {"_op2", "custom_op2"}
    /\ cur.kind = "TensorStack"
    /\ Len(cur.tensors) = 2
    /\ cur.stack_dim[1].size = <<2>>

Cacheable(v) == v.kind \in {"NativeTensor", "TensorStack", "Layout"}

C7_CachedResult ==
    Cacheable(cur) =>
        LET c == cached(cur)
        IN CASE cur.kind = "NativeTensor" ->
                    /\ c.kind = "NativeTensor" /\ c.shape = cur.shape /\ c.native_shape = c.shape
                    /\ (cur.native_shape = cur.shape => c = cur)
             [] no_first_component(cur) -> TRUE
             [] cur.kind = "TensorStack" /\ ~requires_broadcast(cur) ->
                    c.kind = "NativeTensor" /\ c.shape = cur.shape
             [] cur.kind = "TensorStack" /\ requires_broadcast(cur) ->
                    /\ c.kind = "TensorStack" /\ c.shape = cur.shape /\ c.stack_dim = cur.stack_dim
                    /\ c.tensors = [i \in 1..Len(cur.tensors) |-> cached(cur.tensors[i])]
             [] OTHER -> c = cur

\* the operands of the last custom_op2 call
LeftOperand == IF op.arg.left THEN prev ELSE other

RightOperand == IF op.arg.left THEN other ELSE prev

\* C8: custom_op2(x, y) attempts _op2 on the left operand x first; only when that returns
\* NotImplemented it attempts _op2 on the right operand y with the argument-reversed operator and
\* native function; when that returns NotImplemented too, the call fails with an
\* unsupported-operation error that names the types of both operands; a result of the first
\* attempt is never overridden by the second.
C8_DispatchOrder ==
    op.name = "custom_op2" =>
        LET first == op2(LeftOperand, RightOperand, op.fn)
            second == op2(RightOperand, LeftOperand, Reversed(op.fn))
        IN /\ trace[1] = [on |-> "x", fn |-> op.fn, result |-> first]
           /\ first # NotImplemented => (Len(trace) = 1 /\ cur = first)
           /\ first = NotImplemented =>
                 /\ Len(trace) = 2
                 /\ trace[2] = [on |-> "y", fn |-> Reversed(op.fn), result |-> second]
                 /\ second # NotImplemented => cur = second
                 /\ second = NotImplemented =>
                       /\ IsErr(cur)
                       /\ cur.error = "NotImplementedError: Operation not supported"
                       /\ cur.types = <<LeftOperand.kind, RightOperand.kind>>

\* both operands declined and the call failed naming both types
C8_Witness ==
    /\ op.name = "custom_op2"
    /\ Len(trace) = 2
    /\ trace[1].result = NotImplemented
    /\ trace[2].result = NotImplemented
    /\ IsErr(cur)
    /\ cur.types = <<LeftOperand.kind, RightOperand.kind>>

\* C9: NativeTensor._op2 returns NotImplemented whenever the other operand is a Tensor that is
\* not a NativeTensor (TensorStack, Layout, sparse).
C9_NotHandled ==
    (op.name = "_op2" /\ prev.kind = "NativeTensor" /\ IsTensor(other) /\ other.kind # "NativeTensor") => cur = NotImplemented

\* a NativeTensor was asked to combine with a TensorStack
C9_Witness == op.name = "_op2" /\ prev.kind = "NativeTensor" /\ other.kind = "TensorStack" /\ cur = NotImplemented

IsVirtualIn(t, name) == contains(t.shape, name) /\ ~contains(t.native_shape, name)

\* C10: for two NativeTensors a and b with compatible shapes, a._op2(b) returns a NativeTensor
\* whose native_shape is the merge of the two native shapes and whose expanded shape is the
\* merge of the two expanded shapes; a dimension that is virtual in every operand that has it
\* is virtual in the result.
C10_Op2Shapes ==
    (op.name = "_op2" /\ prev.kind = "NativeTensor" /\ other.kind = "NativeTensor" /\ is_compatible(prev.shape, other.shape)) =>
        /\ cur.kind = "NativeTensor"
        /\ cur.native_shape = merge2(prev.native_shape, other.native_shape).shape
        /\ cur.shape = merge2(prev.shape, other.shape).shape
        /\ staticshape(cur.native) = sizes(cur.native_shape)
        /\ \A i \in 1..Len(cur.shape) :
              (\A t \in {prev, other} : contains(t.shape, cur.shape[i].name) => IsVirtualIn(t, cur.shape[i].name))
                  => IsVirtualIn(cur, cur.shape[i].name)

\* an operand with a virtual dimension was combined with one that stores another dimension
C10_Witness ==
    /\ op.name = "_op2" /\ prev.kind = "NativeTensor" /\ other.kind = "NativeTensor"
    /\ cur.kind = "NativeTensor"
    /\ Len(cur.native_shape) > 0
    /\ \E i \in 1..Len(cur.shape) : IsVirtualIn(prev, cur.shape[i].name) /\ IsVirtualIn(cur, cur.shape[i].name)

\* structural comparison of containers: a Layout is compared by its content and its shape (its
\* stack_dim comes back from the skeleton without sizes)
RECURSIVE Canon(_)
Canon(v) ==
    CASE v.kind = "Layout" -> [kind |-> "Layout", obj |-> Canon(v.obj), names |-> names(v.stack_dim), shape |-> v.shape]
      [] v.kind \in {"List", "Tuple"} -> [kind |-> v.kind, items |-> [i \in 1..Len(v.items) |-> Canon(v.items[i])]]
      [] v.kind = "Dict" -> Dict(v.keys, [i \in 1..Len(v.vals) |-> Canon(v.vals[i])])
      [] OTHER -> v

\* the tree was disassembled without caching and assembled from the leaves as produced
RoundTripDone == tpc = "done" /\ op.name = "disassemble_tree" /\ ~op.arg.cache

\* C3: for every supported nested container x (None, Tensor, Layout, list, tuple, dict, raw
\* array, opaque leaves including strings, dicts with any string keys),
\* assemble_tree(*disassemble_tree(x, cache=False)) is structurally equal to x.
C3_RoundTrip == RoundTripDone => Canon(out) = Canon(tree)

\* C4: assemble_tree returns, it consumes exactly the leaves that disassemble_tree produced for
\* the skeleton (none is left), front to back in the order they were produced, and a replaced
\* leaf changes only its own slot: the result has the skeleton it was assembled from and its
\* leaves are the given list.
C4_Consumption ==
    tpc = "done" =>
        /\ ~IsErr(out)
        /\ rest = <<>>
        /\ disassemble_tree(out, FALSE) = Flat(skel, leaves)

\* the null slots and NATIVE_LEAF slots of a skeleton
RECURSIVE slot_count(_)
RECURSIVE slot_count_all(_)
slot_count_all(items) == IF items = <<>> THEN 0 ELSE slot_count(Head(items)) + slot_count_all(Tail(items))

slot_count(k) ==
    CASE k.kind = "None" -> 1
      [] k.kind = "Str" -> IF k.s = NATIVE_TENSOR THEN 1 ELSE 0
      [] k.kind \in {"List", "Tuple"} -> slot_count_all(k.items)
      [] k.kind = "Dict" -> slot_count_all(k.vals)
      [] OTHER -> 0

\* C5: disassemble_tree turns None into the MISSING sentinel without a leaf, a Layout into a
\* layout-marked skeleton of its inner object, any other Tensor into a null slot with one leaf,
\* a list, tuple or dict into a container of the same kind and keys, a raw array into the
\* NATIVE_LEAF sentinel with one NativeTensor leaf with dimensions dim0, dim1, ..., and leaves
\* any other object in the skeleton without a leaf; the number of leaves is the number of null
\* and NATIVE_LEAF slots of the skeleton.
C5_LeafCount ==
    (tpc = "flat" /\ op.name = "disassemble_tree") =>
        /\ CASE tree.kind = "None" -> skel = Str(MISSING_TENSOR) /\ produced = <<>>
             [] tree.kind = "Layout" ->
                    /\ skel.kind = "Dict" /\ has_key(skel, LAYOUT_KEY)
                    /\ dict_get(skel, "obj") = disassemble_tree(tree.obj, op.arg.cache).keys
                    /\ produced = disassemble_tree(tree.obj, op.arg.cache).values
             [] IsTensor(tree) /\ tree.kind # "Layout" -> skel = None /\ Len(produced) = 1
             [] tree.kind \in {"List", "Tuple"} -> skel.kind = tree.kind /\ Len(skel.items) = Len(tree.items)
             [] tree.kind = "Dict" -> skel.kind = "Dict" /\ skel.keys = tree.keys
             [] tree.kind = "Array" ->
                    /\ skel = Str(NATIVE_TENSOR) /\ Len(produced) = 1
                    /\ produced[1].kind = "NativeTensor" /\ produced[1].native = tree
                    /\ names(produced[1].shape) = [i \in 1..Len(tree.shp) |-> DimName(i - 1)]
             [] OTHER -> skel = tree /\ produced = <<>>
        /\ Len(produced) = slot_count(skel)

(***************************************************************************)
(* Binary operations of a stack that requires broadcasting                 *)
(***************************************************************************)
\* t._op2(other) was called on a stack that requires broadcasting, other having the stack dimension
StackOperand ==
    /\ op.name = "_op2"
    /\ prev.kind = "TensorStack"
    /\ prev.tensors # <<>>
    /\ requires_broadcast(prev)
    /\ IsTensor(other)
    /\ contains(other.shape, prev.stack_dim[1].name)

\* C14: when a TensorStack that requires broadcasting is combined with an operand that also has
\* the stack dimension, the operation fails when the operand's size along the stack dimension
\* differs from the number of components, and a result never has fewer components than the stack
\* or fewer than the operand has slices.
C14_PairedOrRejected ==
    StackOperand =>
        /\ get_dim(other.shape, prev.stack_dim[1].name).size # <<Len(prev.tensors)>> => IsErr(cur)
        /\ cur.kind = "TensorStack" => Len(cur.tensors) = Len(prev.tensors)

(***************************************************************************)
(* Slicing a stack by an index along its stack dimension                   *)
(***************************************************************************)
\* t._getitem(selection) was called on a stack with an integer index of an existing component
\* along the stack dimension
StackIndexed ==
    /\ op.name = "_getitem"
    /\ prev.kind = "TensorStack"
    /\ sel_has(op.arg.selection, prev.stack_dim[1].name)
    /\ sel_get(op.arg.selection, prev.stack_dim[1].name).int
    /\ sel_get(op.arg.selection, prev.stack_dim[1].name).start < Len(prev.tensors)

\* the selections on other dimensions than the stack dimension
FurtherSelections == SelectSeq(op.arg.selection, LAMBDA s : s.name # prev.stack_dim[1].name)

\* C15: slicing a TensorStack by an integer index i along its stack dimension only returns
\* component i itself, whether or not the stack requires broadcasting; with further dimensions
\* selected on a stack that requires broadcasting, the result equals component i sliced by the
\* further selections.
C15_ComponentSlice ==
    StackIndexed =>
        LET component == prev.tensors[sel_get(op.arg.selection, prev.stack_dim[1].name).start + 1]
        IN IF FurtherSelections = <<>> THEN cur = component
           ELSE requires_broadcast(prev) => cur = Tensor_getitem(component, FurtherSelections)

(***************************************************************************)
(* Selections on dimensions that a NativeTensor does not store             *)
(***************************************************************************)
\* t._getitem(selection) was called on a NativeTensor
GetItemOnNative == op.name = "_getitem" /\ prev.kind = "NativeTensor"

\* the entries of the selection on dimensions of kind "virtual" (in the expanded shape only),
\* "stored" (in native_shape) or "missing" (in neither shape)
DimKind(t, name) ==
    IF contains(t.native_shape, name) THEN "stored" ELSE IF contains(t.shape, name) THEN "virtual" ELSE "missing"

SelectedOn(kind) == SelectSeq(op.arg.selection, LAMBDA s : DimKind(prev, s.name) = kind)

\* the expanded shape is narrowed by the selection: an indexed dimension is gone, a sliced one
\* has the length of the slice, every other one is as before
Narrowed ==
    /\ \A i \in 1..Len(prev.shape) :
          LET d == prev.shape[i]
          IN IF ~sel_has(op.arg.selection, d.name) THEN contains(cur.shape, d.name) /\ get_dim(cur.shape, d.name).size = d.size
             ELSE IF sel_get(op.arg.selection, d.name).int THEN ~contains(cur.shape, d.name)
             ELSE contains(cur.shape, d.name) /\ get_dim(cur.shape, d.name).size = <<sel_get(op.arg.selection, d.name).stop - sel_get(op.arg.selection, d.name).start>>
    /\ \A i \in 1..Len(cur.shape) : contains(prev.shape, cur.shape[i].name)

\* C16 as stated: a selection on a purely virtual dimension is accepted only as an integer index,
\* which leaves the native array untouched and narrows the expanded shape; a slice on a virtual
\* dimension is rejected.
C16_VirtualSliceRejected ==
    GetItemOnNative =>
        /\ (\E i \in 1..Len(SelectedOn("virtual")) : ~SelectedOn("virtual")[i].int) => IsErr(cur)
        /\ (SelectedOn("virtual") = op.arg.selection /\ \A i \in 1..Len(op.arg.selection) : op.arg.selection[i].int) =>
               (~IsErr(cur) /\ cur.native = prev.native /\ cur.native_shape = prev.native_shape /\ Narrowed)

\* C16 (amended): NativeTensor._getitem accepts a selection on a purely virtual dimension as an
\* integer index and as a slice; either leaves the native array and native_shape untouched and
\* only narrows the expanded shape. On a dimension that is in neither shape an integer index is
\* accepted and changes nothing, and a slice is rejected.
C16_VirtualSelection ==
    GetItemOnNative =>
        /\ (SelectedOn("virtual") = op.arg.selection) =>
               (~IsErr(cur) /\ cur.native = prev.native /\ cur.native_shape = prev.native_shape /\ Narrowed)
        /\ (\E i \in 1..Len(SelectedOn("missing")) : ~SelectedOn("missing")[i].int) => IsErr(cur)
        /\ (SelectedOn("missing") = op.arg.selection /\ \A i \in 1..Len(op.arg.selection) : op.arg.selection[i].int) =>
               (~IsErr(cur) /\ cur.native = prev.native /\ cur.native_shape = prev.native_shape /\ cur.shape = prev.shape)

\* a slice of a virtual dimension was taken: the array is the same, the dimension is shorter
C16_Witness ==
    /\ GetItemOnNative
    /\ SelectedOn("virtual") = op.arg.selection
    /\ \E i \in 1..Len(op.arg.selection) : ~op.arg.selection[i].int
    /\ ~IsErr(cur)
    /\ cur.native = prev.native
    /\ cur.shape # prev.shape

(***************************************************************************)
(* Unstacking a NativeTensor                                               *)
(***************************************************************************)
\* t._unstack(dim) was called on a NativeTensor
UnstackOnNative == op.name = "_unstack" /\ prev.kind = "NativeTensor"

\* entry k (0-based) of array a along the given axis (1-based)
EntryAlong(a, axis, k) == Array(RemoveAt(a.shp, axis), LAMBDA ix : At(a, InsertAt(ix, axis, k)))

\* C17: NativeTensor._unstack(dim) along a dimension that is only virtual returns size(dim)
\* results that all hold the same unchanged native array, with dim removed from both shapes;
\* along a stored dimension it returns the size(dim) slices of the array, with native_shape and
\* expanded shape being the originals without dim; along a dimension in neither shape it fails.
C17_Unstack ==
    UnstackOnNative =>
        LET dim == op.arg.name
            kind == DimKind(prev, dim)
        IN CASE kind = "missing" -> IsErr(cur)
             [] kind = "virtual" ->
                    /\ cur.kind = "Tuple"
                    /\ Len(cur.items) = get_size(prev.shape, dim)
                    /\ \A k \in 1..Len(cur.items) :
                          /\ cur.items[k].native = prev.native
                          /\ cur.items[k].native_shape = prev.native_shape
                          /\ cur.items[k].shape = without(prev.shape, {dim})
             [] kind = "stored" ->
                    /\ cur.kind = "Tuple"
                    /\ Len(cur.items) = get_size(prev.native_shape, dim)
                    /\ \A k \in 1..Len(cur.items) :
                          /\ cur.items[k].native = EntryAlong(prev.native, index(prev.native_shape, dim), k - 1)
                          /\ cur.items[k].native_shape = without(prev.native_shape, {dim})
                          /\ cur.items[k].shape = without(prev.shape, {dim})

\* a tensor was unstacked along a virtual dimension of size two or more while it stores another one
C17_Witness ==
    /\ UnstackOnNative
    /\ DimKind(prev, op.arg.name) = "virtual"
    /\ prev.native_shape # <<>>
    /\ cur.kind = "Tuple"
    /\ Len(cur.items) >= 2

(***************************************************************************)
(* The native array of a NativeTensor in a requested dimension order       *)
(***************************************************************************)
\* t.native(order, force_expand) was called on a NativeTensor with an order given by the caller
NativeCalled == op.name = "native" /\ prev.kind = "NativeTensor" /\ op.arg.order.kind # "None"

RequestedNames == op.arg.order.names

AllStoredListed == \A i \in 1..Len(prev.native_shape) : prev.native_shape[i].name \in Range(RequestedNames)

\* C18 as stated: requesting the native array in an order that contains a name absent from both
\* the native shape and the expanded shape fails.
C18_MissingNameFails ==
    (NativeCalled /\ \E k \in 1..Len(RequestedNames) : DimKind(prev, RequestedNames[k]) = "missing") => IsErr(cur)

\* C18 (amended): a name of the order that is absent from both shapes does not make the request
\* fail: when all stored dimensions are listed, the array is returned with an axis of size one
\* at the position of every such name, with and without force_expand; the request fails exactly
\* when a stored dimension is not listed.
C18_MissingNameSingleton ==
    NativeCalled =>
        /\ IsErr(cur) <=> ~AllStoredListed
        /\ AllStoredListed =>
              /\ cur.kind = "Array"
              /\ Len(cur.shp) = Len(RequestedNames)
              /\ \A k \in 1..Len(RequestedNames) : DimKind(prev, RequestedNames[k]) = "missing" => cur.shp[k] = 1

\* an array was returned for an order with a name that the tensor does not have, force_expand set
C18_Witness ==
    /\ NativeCalled
    /\ op.arg.force_expand
    /\ \E k \in 1..Len(RequestedNames) : DimKind(prev, RequestedNames[k]) = "missing"
    /\ cur.kind = "Array"
    /\ Len(cur.shp) >= 2
    /\ Len(cur.data) >= 2

\* C19: Tensor.native(order) raises an error whenever a dimension of the tensor's shape is not
\* listed in order, for stored and for virtual dimensions alike.
C19_UnlistedDimFails ==
    (NativeCalled /\ \E i \in 1..Len(prev.shape) : prev.shape[i].name \notin Range(RequestedNames)) => IsErr(cur)

\* C20: for a NativeTensor and an order listing all its stored dimensions, the returned array has
\* one axis per name of the order, in that order; the axis of a stored dimension has the size of
\* the dimension; the axis of a virtual dimension has size 1 without force_expand and the size of
\* the dimension with force_expand.
C20_AxisSizes ==
    (NativeCalled /\ AllStoredListed) =>
        /\ cur.kind = "Array"
        /\ Len(cur.shp) = Len(RequestedNames)
        /\ \A k \in 1..Len(RequestedNames) :
              CASE DimKind(prev, RequestedNames[k]) = "stored" -> cur.shp[k] = get_size(prev.native_shape, RequestedNames[k])
                [] DimKind(prev, RequestedNames[k]) = "virtual" ->
                       cur.shp[k] = IF op.arg.force_expand THEN get_size(prev.shape, RequestedNames[k]) ELSE 1
                [] OTHER -> TRUE

\* a virtual dimension of size two was expanded next to a stored dimension
C20_Witness ==
    /\ NativeCalled
    /\ op.arg.force_expand
    /\ cur.kind = "Array"
    /\ Len(cur.data) >= 4
    /\ \E k, j \in 1..Len(RequestedNames) :
          /\ DimKind(prev, RequestedNames[k]) = "virtual" /\ cur.shp[k] = 2
          /\ DimKind(prev, RequestedNames[j]) = "stored" /\ cur.shp[j] >= 2

(***************************************************************************)
(* Equality-mode regions                                                   *)
(***************************************************************************)
\* the regions that are open, over all threads
OpenRegions == UNION { Range(regions[th]) : th \in Threads }

\* the open region that pushed the k-th frame
RegionOf(k) == CHOOSE r \in OpenRegions : r.id = pushed_by[k]

\* C11: the stack is never empty, its bottom frame is the elementwise default, it holds one
\* frame per open region, and as long as the regions were properly nested every exit, by
\* return or by an exception, removed exactly the frame of its region, the frames above the
\* bottom are those of the open regions, and the stack is back at its initial value once the
\* outermost region is left
C11_ScopedRelease ==
    /\ EQUALITY_REDUCE # <<>>
    /\ EQUALITY_REDUCE[1] = ELEMENTWISE
    /\ Len(EQUALITY_REDUCE) = 1 + Cardinality(OpenRegions)
    /\ nested =>
          /\ last_exit # None => last_exit.passed /\ last_exit.removed = last_exit.region
          /\ \A k \in 2..Len(EQUALITY_REDUCE) :
                /\ \E r \in OpenRegions : r.id = pushed_by[k]
                /\ RegionOf(k).spec = EQUALITY_REDUCE[k]
          /\ OpenRegions = {} => EQUALITY_REDUCE = <<ELEMENTWISE>>

\* two regions were nested, the inner one was left by an exception, and the outermost one
\* has been left
C11_Witness ==
    /\ nested
    /\ steps >= 2
    /\ last_exit # None
    /\ last_exit.raised
    /\ last_exit.region[2] = 1
    /\ OpenRegions = {}
    /\ EQUALITY_REDUCE = <<ELEMENTWISE>>

\* a comparison has been evaluated
Compared == compared # None

\* the innermost open frame: that of the region entered last, the default outside any region
InnermostFrame ==
    IF Len(pushed_by) = 1 THEN ELEMENTWISE ELSE RegionOf(Len(pushed_by)).spec

\* both operands store every value along the same dimensions
SameStoredShape(a, b) ==
    /\ a.kind = "NativeTensor" /\ b.kind = "NativeTensor"
    /\ a.shape = b.shape /\ a.native_shape = a.shape /\ b.native_shape = b.shape

\* C12: the comparison follows the innermost open frame: elementwise, it yields a tensor of
\* booleans; by reference, a == b is True exactly for the same object and a != b is its
\* negation; by shape and value, a == b is True exactly for equal dimension sets with values
\* within the tolerances of the frame
C12_InnermostFrame ==
    Compared =>
        LET a == EqObjects[compared.a]
            b == EqObjects[compared.b]
            same == compared.a = compared.b
        IN /\ nested => compared.frame = InnermostFrame
           /\ compared.frame.type = "elementwise" =>
                 /\ ~IsErr(compared.eq) /\ ~IsErr(compared.ne)
                 /\ SameStoredShape(a, b) =>
                       /\ compared.eq.shape = a.shape /\ compared.ne.shape = a.shape
                       /\ \A p \in 1..Len(a.native.data) :
                             /\ native_tuple(compared.eq, names(a.shape)).data[p] = (a.native.data[p] = b.native.data[p])
                             /\ native_tuple(compared.ne, names(a.shape)).data[p] = (a.native.data[p] # b.native.data[p])
           /\ compared.frame.type = "ref" =>
                 /\ Tensor_bool(compared.eq) = Bool(same)
                 /\ Tensor_bool(compared.ne) = Bool(~same)
           /\ compared.frame.type = "shape_and_value" =>
                 /\ Tensor_bool(compared.eq) = Bool(same_dim_set(a.shape, b.shape) /\ close(a, b, same, compared.frame))
                 /\ Tensor_bool(compared.ne) = Bool(~(same_dim_set(a.shape, b.shape) /\ close(a, b, same, compared.frame)))

\* C13: every exit either removes the frame that its own region pushed or fails the assertion
\* on the frame it removed
C13_StrictNesting ==
    last_exit # None => (last_exit.removed = last_exit.region \/ ~last_exit.passed)

(***************************************************************************)
(* Layouts                                                                 *)
(***************************************************************************)
\* layout() was called on a tree
LayoutCalled == op.name = "layout" /\ prev.kind # "Layout"

\* the dict keys of the containers `level` levels below the root, one sequence per dict
RECURSIVE KeysAt(_, _)
KeysAt(obj, level) ==
    IF ~IsContainer(obj) THEN {}
    ELSE IF level = 0 THEN (IF obj.kind = "Dict" THEN {obj.keys} ELSE {})
    ELSE UNION { KeysAt(Children(obj)[i], level - 1) : i \in 1..Len(Children(obj)) }

\* the levels of the tree that the shape of the call covers
CoveredLevels == 0..(Len(op.arg.shape) - 1)

NonStrKey == \E level \in CoveredLevels : \E keys \in KeysAt(prev, level) : \E k \in 1..Len(keys) : keys[k].kind # "Str"

\* C21: layout() fails for a tree with a dict key that is not a str at a level that the shape
\* covers, whether the sizes of the shape are given or not; the str keys of the dicts of a level
\* are the item names of the dimension of that level
C21_StringKeys ==
    LayoutCalled =>
        /\ NonStrKey => IsErr(cur)
        /\ (~NonStrKey /\ ~IsErr(cur)) =>
              \A level \in CoveredLevels : \A keys \in KeysAt(prev, level) :
                  KeysAt(prev, level) = {keys} => cur.shape[level + 1].item_names = [k \in 1..Len(keys) |-> keys[k].s]

\* the tree is nested by lists, tuples and dicts down to the depth of the dimensions s, with as
\* many elements at each level as the dimension has entries
RECURSIVE ExplicitlyNested(_, _)
ExplicitlyNested(obj, s) ==
    \/ s = <<>>
    \/ /\ IsContainer(obj)
       /\ is_uniform(<<s[1]>>)
       /\ Len(Children(obj)) = s[1].size[1]
       /\ \A i \in 1..Len(Children(obj)) : ExplicitlyNested(Children(obj)[i], after_gather(s, <<IntSel(s[1].name, i - 1)>>))

LayoutMethods == {"layout", "_op1", "_op2", "__cast__", "__expand__", "__stack__", "__pack_dims__", "_getitem"}

\* C22: the tree of every Layout that layout() or a method of a Layout returns is nested as deep
\* as its stack_dim has dimensions, with the sizes of the dimensions as lengths
C22_NestingInvariant ==
    (op.name \in LayoutMethods /\ cur.kind = "Layout") => ExplicitlyNested(cur.obj, cur.stack_dim)

(***************************************************************************)
(* Elements of a tensor                                                    *)
(***************************************************************************)
\* the elements of a tensor with the indices at which they are read: one dimension after the
\* other is indexed with t[{dim: i}], a dimension of uniform size first
RECURSIVE Entries(_)
Entries(t) ==
    IF IsErr(t) \/ ~IsTensor(t) THEN {[index |-> {}, ok |-> FALSE, value |-> 0]}
    ELSE IF t.shape = <<>> THEN {[index |-> {}, ok |-> t.kind = "NativeTensor", value |-> IF t.kind = "NativeTensor" THEN t.native.data[1] ELSE 0]}
    ELSE LET d == t.shape[CHOOSE k \in 1..Len(t.shape) : Len(t.shape[k].size) = 1 /\ \A j \in 1..(k - 1) : Len(t.shape[j].size) # 1]
         IN UNION { { [e EXCEPT !.index = @ \cup {<<d.name, i>>}] : e \in Entries(Tensor_getitem(t, <<IntSel(d.name, i)>>)) } : i \in 0..(d.size[1] - 1) }

\* the tuple that t._unstack(dim) returned for a dimension dim of t has been stacked again
Restacked == op.name = "restack"

\* C23: stacking the tuple that t._unstack(d) returns along a dimension with the name, type
\* and size of d gives a tensor with the dimensions of t and the elements of t at every index
C23_StackUnstackRoundTrip ==
    Restacked =>
        /\ ~IsErr(cur)
        /\ Range(cur.shape) = Range(other.shape)
        /\ Entries(cur) = Entries(other)


(***************************************************************************)
(* Sums                                                                    *)
(***************************************************************************)
\* two shapes agree on every dimension they share: same type and same size, for a non-uniform
\* size the same sizes along the same dimension
SameSizes(a, b) ==
    \A i \in 1..Len(a), j \in 1..Len(b) :
        a[i].name = b[j].name => (a[i].type = b[j].type /\ a[i].size = b[j].size /\ a[i].along = b[j].along)

\* a + b has just been evaluated for two tensors a = prev and b = other with compatible shapes
Added ==
    /\ op.name = "add"
    /\ prev.kind \in {"NativeTensor", "TensorStack"}
    /\ other.kind \in {"NativeTensor", "TensorStack"}
    /\ SameSizes(prev.shape, other.shape)

\* the dimensions of a tensor as a set of names with their sizes
DimSizes(t) == {<<t.shape[i].name, t.shape[i].size>> : i \in 1..Len(t.shape)}

\* C24: for two tensors a and b with compatible shapes, NativeTensor or TensorStack, a + b and
\* b + a have the same dimensions with the same sizes and equal elements at every index, and
\* tensor([1, 2, 3], spatial('x')) + wrap(10) has the shape (x=3)
C24_BroadcastCommutativity ==
    Added =>
        /\ ~IsErr(cur)
        /\ ~IsErr(op.arg.swapped)
        /\ DimSizes(cur) = DimSizes(op.arg.swapped)
        /\ Entries(cur) = Entries(op.arg.swapped)
        /\ (prev = vx3 /\ other = scalar10) => cur.shape = <<X(3)>>


\* a._op2(b, ...) has just been evaluated for two TensorStacks a = prev and b = other with
\* compatible shapes
StacksAdded ==
    /\ op.name = "add"
    /\ prev.kind = "TensorStack"
    /\ other.kind = "TensorStack"
    /\ SameSizes(prev.shape, other.shape)

\* C28: for two TensorStacks a and b with compatible shapes, a._op2(b, ...) never raises: it
\* returns NotImplemented or a tensor whose dimension names are the union of those of a and b
C28_StackOp2NeverRaises ==
    StacksAdded =>
        \/ op.arg.direct = NotImplemented
        \/ /\ ~IsErr(op.arg.direct)
           /\ Range(names(op.arg.direct.shape)) = Range(names(prev.shape)) \cup Range(names(other.shape))


(***************************************************************************)
(* Materializing a stack                                                   *)
(***************************************************************************)
\* cached(stack) has just been evaluated for a stack that does not require broadcasting
Materialized ==
    /\ op.name = "cached"
    /\ prev.kind = "TensorStack"
    /\ Len(prev.tensors) > 0
    /\ ~requires_broadcast(prev)

\* m is a NativeTensor with the shape of the stack that holds, at every index, the element of the
\* component selected by the index along the stack dimension
HoldsComponents(m, stack) ==
    /\ ~IsErr(m)
    /\ m.kind = "NativeTensor"
    /\ m.shape = stack.shape
    /\ \A r \in Entries(m) :
          /\ r.ok
          /\ \E i \in 1..Len(stack.tensors) :
                /\ <<stack.stack_dim[1].name, i - 1>> \in r.index
                /\ \E e \in Entries(stack.tensors[i]) : e.ok /\ e.index \subseteq r.index /\ e.value = r.value

\* C27: for a TensorStack that does not require broadcasting, cached(stack) and
\* stack._contiguous() are NativeTensors with the shape of the stack that hold at every index
\* the element of the corresponding component, whatever the dimension order of the components
\* and also when a component lacks a dimension of another one
C27_MaterializedValues ==
    Materialized => (HoldsComponents(cur, prev) /\ HoldsComponents(contiguous(prev), prev))


(***************************************************************************)
(* Specs and native arrays                                                 *)
(***************************************************************************)
\* assemble_tensors has just been applied to the natives and specs that disassemble_tensors
\* returned for the list [prev, other]
Replayed == op.name = "assemble_tensors"

Disassembled == <<prev, other>>

\* the tensors whose _natives() and _spec_dict() disassemble_tensors lists
Listed(i) == IF Disassembled[i].kind = "TensorStack" \/ op.arg.expand THEN cached(Disassembled[i]) ELSE Disassembled[i]

\* the number of arrays that the tensors before the i-th one contributed
Before(i) == IF i = 1 THEN 0 ELSE Len(natives(Listed(1)))

\* C25: assemble_tensors applied to the natives and specs of disassemble_tensors takes, for
\* every spec, the arrays from the front of the list in the order of _natives(), exactly as many
\* as the tensor contributed, and rebuilds tensors of the same representation kind, shapes and
\* values
C25_SerializationReplay ==
    Replayed =>
        /\ ~IsErr(op.arg.disassembled)
        /\ ~IsErr(cur)
        /\ Len(cur.items) = Len(Disassembled)
        /\ \A i \in 1..Len(Disassembled) :
              LET list == op.arg.disassembled.natives
                  n == Len(natives(Listed(i)))
                  rebuilt == from_spec_and_natives(op.arg.disassembled.specs[i], SubSeq(list, Before(i) + 1, Len(list)))
              IN /\ rebuilt.natives = SubSeq(list, Before(i) + n + 1, Len(list))
                 /\ rebuilt.tensor = cur.items[i]
                 /\ natives(cur.items[i]) = SubSeq(list, Before(i) + 1, Before(i) + n)
                 /\ cur.items[i].kind = Listed(i).kind
                 /\ cur.items[i].shape = Disassembled[i].shape
                 /\ Entries(cur.items[i]) = Entries(Disassembled[i])


\* serialize_spec(t._spec_dict()) has just been computed for the tensor prev
Serialized == op.name = "serialize_spec"

\* every 'type' entry of a spec, at every level, is a string
RECURSIVE OnlyTypeNames(_)
OnlyTypeNames(v) ==
    CASE v.kind = "Dict" -> \A i \in 1..Len(v.keys) : IF v.keys[i] = "type" THEN v.vals[i].kind = "Str" ELSE OnlyTypeNames(v.vals[i])
      [] v.kind = "List" -> \A i \in 1..Len(v.items) : OnlyTypeNames(v.items[i])
      [] OTHER -> v.kind # "Class"

\* C26: for every tensor, NativeTensor or TensorStack nested to any depth, every 'type' entry
\* of serialize_spec(t._spec_dict()) at every level is a type-name string, and unserialize_spec
\* restores the original spec
C26_NoClassInSpecs ==
    Serialized =>
        /\ ~IsErr(cur)
        /\ OnlyTypeNames(cur)
        /\ unserialize_spec(cur) = spec_dict(prev)


(***************************************************************************)
(* Unpacking the stack dimension                                           *)
(***************************************************************************)
\* the stack dimension of a non-uniform stack of n components has just been unpacked into
\* dimensions whose sizes multiply to n; the dimensions d1, ..., dk are new ones, none of them
\* is a dimension of the stack already
Unpacked ==
    /\ op.name = "__unpack_dim__"
    /\ prev.kind = "TensorStack"
    /\ is_non_uniform(prev.shape)
    /\ op.arg.name = prev.stack_dim[1].name
    /\ volume(op.arg.dims) = Len(prev.tensors)
    /\ \A j \in 1..Len(op.arg.dims) : ~contains(prev.shape, op.arg.dims[j].name)

\* t is a stack along dims[j] of dims[j].size stacks along dims[j - 1] and so on down to dims[1]
RECURSIVE NestedSizes(_, _, _)
NestedSizes(t, dims, j) ==
    \/ j = 0
    \/ /\ t.kind = "TensorStack"
       /\ t.stack_dim[1].name = dims[j].name
       /\ Len(t.tensors) = dims[j].size[1]
       /\ \A i \in 1..Len(t.tensors) : NestedSizes(t.tensors[i], dims, j - 1)

\* the element of the nested stacks at the indices ix, one index per dimension
RECURSIVE ElementAt(_, _, _)
ElementAt(t, ix, j) == IF j = 0 THEN t ELSE ElementAt(t.tensors[ix[j] + 1], ix, j - 1)

IndexTuples(dims) == {ix \in [1..Len(dims) -> 0..volume(dims)] : \A j \in 1..Len(dims) : ix[j] < dims[j].size[1]}

\* C29: unpacking the stack dimension of a non-uniform TensorStack with n components into
\* dimensions (d1: s1, ..., dk: sk) with s1 * ... * sk = n returns nested TensorStacks with
\* exactly those sizes in which the element at the indices (i1, ..., ik) is the original
\* component at the row-major position of the indices; every component occurs exactly once:
\* the nested stacks have n places and each position of the original list fills one of them
C29_UnpackRowMajor ==
    Unpacked =>
        /\ ~IsErr(cur)
        /\ NestedSizes(cur, op.arg.dims, Len(op.arg.dims))
        /\ \A ix \in IndexTuples(op.arg.dims) :
              ElementAt(cur, ix, Len(op.arg.dims)) = prev.tensors[flat_pos(sizes(op.arg.dims), ix) + 1]
        /\ Cardinality(IndexTuples(op.arg.dims)) = Len(prev.tensors)
        /\ \A c \in 1..Len(prev.tensors) :
              Cardinality({ix \in IndexTuples(op.arg.dims) :
                              /\ flat_pos(sizes(op.arg.dims), ix) + 1 = c
                              /\ ElementAt(cur, ix, Len(op.arg.dims)) = prev.tensors[c]}) = 1

\* six components of different sizes have been unpacked into (u=2, v=3)
C29_Witness ==
    /\ Unpacked
    /\ Len(prev.tensors) = 6
    /\ sizes(op.arg.dims) = <<2, 3>>
    /\ ~IsErr(cur)
    /\ ElementAt(cur, <<1, 0>>, 2) = prev.tensors[4]


(***************************************************************************)
(* BroadcastFormatter                                                      *)
(***************************************************************************)
Idle(v) == v = None

Collecting(v) == v # None /\ v.kind = "List"

\* C30: the formatter is idle (values is None) or collecting (values is a list); __neg__ moves
\* it from idle to collecting and raises SyntaxError when it is collecting; formatting a string
\* while idle raises SyntaxError; while collecting, Tensor.__format__ appends the tensor and
\* returns the placeholder with the next index, starting at 0; a completed format returns the
\* formatter to idle, and an idle formatter leaves Tensor.__format__ to the ordinary formatting
C30_FormatterProtocol ==
    /\ Idle(BROADCAST_FORMATTER.values) \/ Collecting(BROADCAST_FORMATTER.values)
    /\ last # None =>
          /\ (last.name = "__neg__" /\ Idle(last.before)) =>
                (BROADCAST_FORMATTER.values = List(<<>>) /\ ~IsErr(last.result))
          /\ (last.name = "__neg__" /\ Collecting(last.before)) =>
                (last.result.error = "SyntaxError: -f called twice without formatting string." /\ BROADCAST_FORMATTER.values = last.before)
          /\ (last.name = "__sub__" /\ Idle(last.before) /\ last.args[1].kind = "Str") =>
                (last.result.error = "SyntaxError: Use the syntax -f-f\"{tensor}\". Leading '-' is missing." /\ Idle(BROADCAST_FORMATTER.values))
          /\ (last.name = "__format__" /\ Collecting(last.before)) =>
                /\ BROADCAST_FORMATTER.values = List(Append(last.before.items, last.args[1]))
                /\ last.result = Placeholder(Len(last.before.items), last.args[2].dims)
          /\ (last.name = "__sub__" /\ ~IsErr(last.result)) => Idle(BROADCAST_FORMATTER.values)
          /\ (last.name = "__format__" /\ Idle(last.before)) =>
                /\ Idle(BROADCAST_FORMATTER.values)
                /\ ~IsErr(last.result) => (last.result.tensor = last.args[1] /\ last.result.layout \in {"auto", "summary"})

\* a string with two fields has been formatted with the two tensors collected since -f
C30_Witness ==
    /\ last # None
    /\ last.name = "__sub__"
    /\ Collecting(last.before)
    /\ Len(last.before.items) = 2
    /\ ~IsErr(last.result)
    /\ last.result.formatted = Template(2)
    /\ Idle(BROADCAST_FORMATTER.values)

====
